---- MODULE Spec2Model ----
(***************************************************************************)
(* Model of the HTML canonicalization engine of diff-dev-prod:             *)
(* prepareHtmlForUsefulComparisons (element pruner, attribute pruner,      *)
(* head reordering, attribute sorting, serialization).                     *)
(*                                                                         *)
(* Text is modelled as sequences of tokens (short strings); the document   *)
(* is a table of nodes, node 1 being the Document node.                    *)
(***************************************************************************)
EXTENDS Integers, Sequences, FiniteSets, TLC

\* ------------------------------------------------------------------ bounds
\* longest `elements` list of a multi-rule cleaning configuration
MaxElementRules == 2
\* longest `attributes` list of a multi-rule cleaning configuration
MaxAttributeRules == 2

\* ------------------------------------------------------------- sequences
Range(s) == {s[i] : i \in DOMAIN s}

RECURSIVE Concat(_)
Concat(ss) == IF ss = <<>> THEN <<>> ELSE Head(ss) \o Concat(Tail(ss))

\* every sequence over S of length at most n
SeqUpTo(S, n) == UNION {[1..k -> S] : k \in 0..n}

Reverse(s) == [i \in 1..Len(s) |-> s[Len(s) + 1 - i]]

\* s without its i-th entry
DropAt(s, i) == [j \in 1..(Len(s) - 1) |-> IF j < i THEN s[j] ELSE s[j + 1]]

\* String.prototype.includes on token sequences: needle is a contiguous run
Includes(hay, needle) ==
    \E i \in 0..(Len(hay) - Len(needle)) :
        \A j \in 1..Len(needle) : hay[i + j] = needle[j]

\* --------------------------------------------------------------- the DOM
DOCUMENT == 1
NULL == 0

ElementNode(tag, attrs, kids) ==
    [nodeType |-> "element", tagName |-> tag, attributes |-> attrs,
     childNodes |-> kids, parentNode |-> NULL, data |-> <<>>]

TextNode(toks) ==
    [nodeType |-> "text", tagName |-> "#text", attributes |-> <<>>,
     childNodes |-> <<>>, parentNode |-> NULL, data |-> toks]

CommentNode(toks) ==
    [nodeType |-> "comment", tagName |-> "#comment", attributes |-> <<>>,
     childNodes |-> <<>>, parentNode |-> NULL, data |-> toks]

DocumentNode(kids) ==
    [nodeType |-> "document", tagName |-> "#document", attributes |-> <<>>,
     childNodes |-> kids, parentNode |-> NULL, data |-> <<>>]

\* fills in the parent back-references of a node table from its child lists
LinkParents(t) ==
    [i \in DOMAIN t |->
        [t[i] EXCEPT !.parentNode =
            IF \E p \in DOMAIN t : i \in Range(t[p].childNodes)
            THEN CHOOSE p \in DOMAIN t : i \in Range(t[p].childNodes)
            ELSE NULL]]

IsElement(d, n) == d[n].nodeType = "element"

\* the nodes of the subtree of n, in document (pre-) order
RECURSIVE PreOrder(_, _)
PreOrder(d, n) ==
    <<n>> \o Concat([i \in DOMAIN d[n].childNodes |-> PreOrder(d, d[n].childNodes[i])])

\* n is connected to the Document node
RECURSIVE InDocument(_, _)
InDocument(d, n) ==
    IF n = DOCUMENT THEN TRUE
    ELSE IF d[n].parentNode = NULL THEN FALSE
    ELSE InDocument(d, d[n].parentNode)

\* document.documentElement: the first element child of the document, or null
DocumentElement(d) ==
    LET es == SelectSeq(d[DOCUMENT].childNodes, LAMBDA c : IsElement(d, c))
    IN  IF es = <<>> THEN NULL ELSE es[1]

\* document.head: the first `head` child of the root `html` element, or null
DocumentHead(d) ==
    LET root == DocumentElement(d)
    IN  IF root = NULL \/ d[root].tagName # "html" THEN NULL
        ELSE LET hs == SelectSeq(d[root].childNodes,
                                 LAMBDA c : IsElement(d, c) /\ d[c].tagName = "head")
             IN  IF hs = <<>> THEN NULL ELSE hs[1]

\* serialization of one attribute list
AttributesHTML(attrs) ==
    Concat([i \in DOMAIN attrs |->
              <<" ", attrs[i][1], "=\"">> \o attrs[i][2] \o <<"\"">>])

\* Element.outerHTML / Node serialization, and Element.innerHTML
RECURSIVE OuterHTML(_, _)
OuterHTML(d, n) ==
    LET inner == Concat([i \in DOMAIN d[n].childNodes |-> OuterHTML(d, d[n].childNodes[i])])
    IN  CASE d[n].nodeType = "text" -> d[n].data
          [] d[n].nodeType = "comment" -> <<"<!--">> \o d[n].data \o <<"-->">>
          [] d[n].nodeType = "document" -> inner
          [] OTHER -> <<"<", d[n].tagName>> \o AttributesHTML(d[n].attributes) \o <<">">>
                      \o inner \o <<"</", d[n].tagName, ">">>

InnerHTML(d, n) ==
    Concat([i \in DOMAIN d[n].childNodes |-> OuterHTML(d, d[n].childNodes[i])])

\* Node.removeChild(child): both sides of the link are updated
RemoveChild(d, parent, child) ==
    LET at == CHOOSE i \in DOMAIN d[parent].childNodes : d[parent].childNodes[i] = child
    IN  [d EXCEPT ![parent].childNodes = DropAt(@, at),
                  ![child].parentNode = NULL]

\* element.innerHTML = '': every child is detached
ClearChildren(d, e) ==
    [n \in DOMAIN d |->
        IF n = e THEN [d[n] EXCEPT !.childNodes = <<>>]
        ELSE IF d[n].parentNode = e THEN [d[n] EXCEPT !.parentNode = NULL]
        ELSE d[n]]

\* variant: the replacement is appended as a text node
AppendComment_AsText(d, e, toks) ==
    LET c == Len(d) + 1
    IN  [Append(d, [TextNode(toks) EXCEPT !.parentNode = e])
            EXCEPT ![e].childNodes = Append(@, c)]

\* document.createComment(text) followed by element.appendChild(comment)
AppendComment(d, e, toks) ==
    LET c == Len(d) + 1
    IN  [Append(d, [CommentNode(toks) EXCEPT !.parentNode = e])
            EXCEPT ![e].childNodes = Append(@, c)]

HasAttribute(d, e, name) == \E i \in DOMAIN d[e].attributes : d[e].attributes[i][1] = name

GetAttribute(d, e, name) ==
    LET i == CHOOSE i \in DOMAIN d[e].attributes : d[e].attributes[i][1] = name
    IN  d[e].attributes[i][2]

\* an existing attribute keeps its position, a new one is added last
SetAttribute(d, e, name, value) ==
    IF HasAttribute(d, e, name)
    THEN [d EXCEPT ![e].attributes =
            [i \in DOMAIN @ |-> IF @[i][1] = name THEN <<name, value>> ELSE @[i]]]
    ELSE [d EXCEPT ![e].attributes = Append(@, <<name, value>>)]

RemoveAttribute(d, e, name) ==
    [d EXCEPT ![e].attributes = SelectSeq(@, LAMBDA a : a[1] # name)]

\* ---------------------------------------------------------------- inputs
\* Documents as written in the input string; the comment nodes are input comments.
DocNested ==
    LinkParents(<<
        DocumentNode(<<2>>),
        ElementNode("html", <<>>, <<3, 4>>),
        ElementNode("head", <<>>, <<5>>),
        ElementNode("body", <<>>, <<7>>),
        ElementNode("title", <<>>, <<6>>),
        TextNode(<<"x">>),
        ElementNode("div", << <<"id", <<"x">> >>, <<"class", <<"c">> >> >>, <<8, 10>>),
        ElementNode("div", << <<"id", <<>> >> >>, <<9>>),
        TextNode(<<"x", "y">>),
        CommentNode(<<"x">>)
    >>)

DocHead ==
    LinkParents(<<
        DocumentNode(<<2>>),
        ElementNode("html", <<>>, <<3, 4>>),
        ElementNode("head", <<>>, <<5, 7, 8>>),
        ElementNode("body", <<>>, <<9>>),
        ElementNode("script", <<>>, <<6>>),
        TextNode(<<"y">>),
        ElementNode("title", <<>>, <<>>),
        ElementNode("meta", << <<"name", <<"x">> >> >>, <<>>),
        ElementNode("div", << <<"class", <<"X", "y">> >> >>, <<10>>),
        TextNode(<<"X">>)
    >>)

DocSoup ==
    LinkParents(<<
        DocumentNode(<<2>>),
        ElementNode("html", <<>>, <<3, 4>>),
        ElementNode("head", <<>>, <<>>),
        ElementNode("body", <<>>, <<5>>),
        ElementNode("div", << <<"id", <<"y">> >> >>, <<6>>),
        TextNode(<<"y">>)
    >>)

\* a head with two `meta` elements, a `template` (a tag head_sort_order does
\* not list) and a `title` last; the script text has an indented second line
DocMetas ==
    LinkParents(<<
        DocumentNode(<<2>>),
        ElementNode("html", <<>>, <<3, 4>>),
        ElementNode("head", <<>>, <<5, 6, 7, 8>>),
        ElementNode("body", <<>>, <<9>>),
        ElementNode("meta", << <<"name", <<"x">> >>, <<"class", <<"c">> >> >>, <<>>),
        ElementNode("meta", << <<"id", <<"y">> >> >>, <<>>),
        ElementNode("template", <<>>, <<>>),
        ElementNode("title", <<>>, <<>>),
        ElementNode("script", <<>>, <<10>>),
        TextNode(<<"y", "\n", " ", "x">>)
    >>)

\* html_str: the markup, and whether html-minifier can parse it
HtmlInputs ==
    { [wellformed |-> TRUE, tree |-> DocNested],
      [wellformed |-> TRUE, tree |-> DocHead],
      [wellformed |-> TRUE, tree |-> DocMetas],
      [wellformed |-> FALSE, tree |-> DocSoup] }

\* ------------------------------------------------------------- selectors
\* The selector strings that parse: universal, type, attribute presence.
\* Any other string (the rules use "div[") is not valid selector syntax.
ValidSelectors == {"*", "div", "head", "[id]"}

SelectorMatches(d, n, selector) ==
    CASE selector = "*" -> TRUE
      [] selector = "[id]" -> HasAttribute(d, n, "id")
      [] OTHER -> d[n].tagName = selector

\* document.querySelectorAll(selector): a static list, in document order, of
\* the elements connected to the document that match
\* variant: the selection also returns elements already detached from the document
QuerySelectorAll_Detached(d, selector) ==
    SelectSeq([n \in 1..Len(d) |-> n],
              LAMBDA n : IsElement(d, n) /\ SelectorMatches(d, n, selector))
QuerySelectorAll(d, selector) ==
    SelectSeq(PreOrder(d, DOCUMENT),
              LAMBDA n : IsElement(d, n) /\ SelectorMatches(d, n, selector))

\* ------------------------------------------------------------------ RegExp
\* A pattern source is a token sequence; "." matches any one token, "(" opens
\* a group that is never closed (a SyntaxError). The flag "i" ignores case,
\* any other flag is a SyntaxError.
ValidFlags == {"", "i"}

RegExpCompiles(source, flags) == ("(" \notin Range(source)) /\ (flags \in ValidFlags)

NewRegExp(source, flags) == [defined |-> TRUE, source |-> source, ignoreCase |-> (flags = "i")]

\* `let re;` before any assignment
UndefinedRegExp == [defined |-> FALSE, source |-> <<>>, ignoreCase |-> FALSE]

FoldCase(tok) == IF tok = "X" THEN "x" ELSE IF tok = "Y" THEN "y" ELSE tok

\* RegExp.prototype.test: the pattern matches somewhere in the text
RegExpTest(re, text) ==
    \E i \in 0..(Len(text) - Len(re.source)) :
        \A j \in 1..Len(re.source) :
            \/ re.source[j] = "."
            \/ re.source[j] = text[i + j]
            \/ re.ignoreCase /\ FoldCase(re.source[j]) = FoldCase(text[i + j])

\* ------------------------------------------------- cleaning configuration
\* A rule is a JSON object: a function from the keys it supplies to values.
Has(rule, key) == key \in DOMAIN rule

Field(rule, key, default) == IF Has(rule, key) THEN rule[key] ELSE default

\* truthiness of a string-valued (token sequence) field and of a boolean field
TruthyText(rule, key) == Has(rule, key) /\ rule[key] # <<>>
TruthyFlag(rule, key) == Has(rule, key) /\ rule[key] = TRUE

Opt(key, Vals) == {<<>>} \cup {(key :> v) : v \in Vals}

\* contains / containsRegex / containsRegexFlags combinations
FilterFields ==
    {c @@ r : c \in Opt("contains", {<<"y">>}),
              r \in {<<>>,
                     [containsRegex |-> <<"x">>],
                     [containsRegex |-> <<"x">>, containsRegexFlags |-> "i"],
                     [containsRegex |-> <<"x">>, containsRegexFlags |-> "z"],
                     [containsRegex |-> <<"(">>]}}

\* remove / empty / replacement combinations
ActionFields ==
    {r @@ e @@ p : r \in Opt("remove", BOOLEAN), e \in Opt("empty", BOOLEAN),
                   p \in Opt("replacement", {<<"r">>})}

ElementRules ==
    {s @@ f @@ a : s \in Opt("selector", {"*", "div", "div["}),
                   f \in FilterFields, a \in ActionFields}

AttributeRules ==
    {n @@ s @@ f @@ a : n \in Opt("attribute", {"id"}),
                        s \in Opt("selector", {"div", "div["}),
                        f \in FilterFields, a \in ActionFields}

\* the rules that multi-rule configurations are built from
ListElementRules ==
    { [selector |-> "div", remove |-> TRUE],
      [selector |-> "*", contains |-> <<"y">>, replacement |-> <<"r">>],
      [remove |-> TRUE, contains |-> <<"y">>],
      [selector |-> "div[", empty |-> TRUE] }

ListAttributeRules ==
    { [attribute |-> "id"],
      [attribute |-> "class", empty |-> TRUE, replacement |-> <<"r">>],
      [selector |-> "div", remove |-> TRUE],
      [attribute |-> "id", selector |-> "div["] }

\* rules aimed at the head ("you can pass in 'head' to empty the head tag")
HeadElementRules ==
    { [selector |-> "head", replacement |-> <<"r">>],
      [selector |-> "head", remove |-> TRUE] }
CleanConfigs ==
    {[elements |-> <<r>>, attributes |-> <<>>] : r \in ElementRules}
    \cup {[elements |-> <<>>, attributes |-> <<r>>] : r \in AttributeRules}
    \cup {[elements |-> <<r>>, attributes |-> <<>>] : r \in HeadElementRules}
    \cup {[elements |-> es, attributes |-> as] :
            es \in SeqUpTo(ListElementRules, MaxElementRules),
            as \in SeqUpTo(ListAttributeRules, MaxAttributeRules)}

\* the options object; tidy_on_bad_html is read only when the first minify
\* throws, so it is varied for those inputs only. The last set holds the
\* objects that supply clean_config alone.
Options(html) ==
    {[reorder_head_tags |-> h, tidy_on_bad_html |-> t, quiet |-> q, clean_config |-> c] :
        h \in BOOLEAN, q \in BOOLEAN, c \in CleanConfigs,
        t \in IF html.wellformed THEN {FALSE} ELSE BOOLEAN}
    \cup {[clean_config |-> c] : c \in CleanConfigs}

\* JSON.stringify of a rule: the supplied keys with their values, booleans
\* bare and strings quoted
RuleKeyOrder ==
    <<"attribute", "selector", "contains", "containsRegex", "containsRegexFlags",
      "remove", "empty", "replacement">>

JSONValue(key, v) ==
    CASE key \in {"remove", "empty"} -> IF v THEN <<"true">> ELSE <<"false">>
      [] key \in {"attribute", "selector", "containsRegexFlags"} -> <<"\"", v, "\"">>
      [] OTHER -> <<"\"">> \o v \o <<"\"">>

JSONStringify(rule) ==
    LET keys == SelectSeq(RuleKeyOrder, LAMBDA k : Has(rule, k))
    IN  <<"{">>
        \o Concat([i \in DOMAIN keys |->
                     (IF i = 1 THEN <<>> ELSE <<",">>)
                     \o <<"\"", keys[i], "\"", ":">> \o JSONValue(keys[i], rule[keys[i]])])
        \o <<"}">>

\* ----------------------------------------------------------------- state
VARIABLES
    caller,         \* the calling side: which call this is, how its input was
                    \* obtained, and the string the call before it returned
    html_str,       \* the input markup
    opt,            \* the options object, clean_config included
    stage,          \* the statement prepareHtmlForUsefulComparisons is at
    document,       \* the node table of dom.window.document
    rule_i,         \* index of the rule of the running for-of loop
    elements,       \* the NodeList of the running rule
    el_i,           \* index into elements of the next loop iteration
    iter,           \* the locals of the latest loop iteration
    warnings,       \* the console.warn calls made so far
    error,          \* the value thrown to the caller, <<>> if none
    formatted_html  \* the returned string; assigned without a declaration, so
                    \* it is a property of the global object

vars == <<caller, html_str, opt, stage, document, rule_i, elements, el_i, iter,
          warnings, error, formatted_html>>

\* the destructured options with their defaults, and `loud`
reorder_head_tags == Field(opt, "reorder_head_tags", FALSE)
\* variant: recovery is on unless it is switched off
tidy_on_bad_html_DefaultOn == Field(opt, "tidy_on_bad_html", TRUE)

tidy_on_bad_html == Field(opt, "tidy_on_bad_html", FALSE)
loud == ~Field(opt, "quiet", FALSE)

\* ------------------------------------------------------------ first minify
\* htmlMinify with removeComments: the comments of the markup are dropped
StripComments(d) ==
    [n \in DOMAIN d |->
        IF d[n].nodeType = "comment" THEN [d[n] EXCEPT !.parentNode = NULL]
        ELSE [d[n] EXCEPT !.childNodes =
                SelectSeq(@, LAMBDA c : d[c].nodeType # "comment")]]

\* white space tokens: space, line break, tab
Whitespace == {" ", "\n", "\t"}

\* HTML_BEAUTIFY_CONFIG.content_unformatted; html-minifier leaves the white
\* space of these elements alone as well
content_unformatted == {"script", "pre"}

IsBlank(d, n) == d[n].nodeType = "text" /\ Range(d[n].data) \subseteq Whitespace

\* collapseWhitespace: a text node of white space only, between tags, is dropped
CollapseWhitespace(d) ==
    [n \in DOMAIN d |->
        IF d[n].tagName \in content_unformatted THEN d[n]
        ELSE IF IsBlank(d, n) /\ d[n].parentNode # NULL
                /\ d[d[n].parentNode].tagName \notin content_unformatted
             THEN [d[n] EXCEPT !.parentNode = NULL]
             ELSE [d[n] EXCEPT !.childNodes = SelectSeq(@, LAMBDA c : ~IsBlank(d, c))]]

\* htmlMinify under HTML_MINIFY_CONFIG, removeComments as given
htmlMinify(d, removeComments) ==
    CollapseWhitespace(IF removeComments THEN StripComments(d) ELSE d)

\* the locals of a loop iteration: which loop, its rule (element_to_clean or
\* attribute_to_clean), its element, the text the filter ran on, the match
\* results, and whether the pruning statements were reached
NoIteration ==
    [loop |-> "none", rule |-> <<>>, element |-> NULL, candidate |-> <<>>,
     re |-> UndefinedRegExp, contains_string_match |-> FALSE,
     contains_regex_match |-> FALSE, pruned |-> FALSE]

\* the caller before its first call returns
FirstCall == [call |-> 1, input |-> "given", returned |-> <<>>]

Init ==
    /\ caller = FirstCall
    /\ html_str \in HtmlInputs
    /\ opt \in Options(html_str)
    /\ stage = "minify"
    /\ document = <<DocumentNode(<<>>)>>
    /\ rule_i = 0
    /\ elements = <<>>
    /\ el_i = 0
    /\ iter = NoIteration
    /\ warnings = <<>>
    /\ error = <<>>
    /\ formatted_html = <<>>

Throw(e) ==
    /\ stage' = "failed"
    /\ error' = e
    /\ UNCHANGED <<caller, html_str, opt, document, rule_i, elements, el_i, iter,
                   warnings, formatted_html>>

\* minify succeeds, or fails and the input is tidied through JSDOM first
MinifyOk ==
    /\ stage = "minify"
    /\ html_str.wellformed \/ tidy_on_bad_html
    /\ document' = htmlMinify(html_str.tree, TRUE)
    /\ stage' = "elements"
    /\ rule_i' = 1
    /\ UNCHANGED <<caller, html_str, opt, elements, el_i, iter, warnings, error, formatted_html>>

\* minify fails and tidy_on_bad_html is off: `throw e`
MinifyThrows ==
    /\ stage = "minify"
    /\ ~html_str.wellformed /\ ~tidy_on_bad_html
    /\ Throw(<<"minify: parse error">>)

\* ------------------------------------------------------------ rule filter
\* variant: a pattern that does not compile is kept as a filter nothing passes
CompileFilter_FailsClosed(rule) ==
    IF TruthyText(rule, "containsRegex")
    THEN [defined |-> TRUE, source |-> rule.containsRegex, ignoreCase |-> FALSE]
    ELSE UndefinedRegExp

\* the `re` local after the try/catch around `new RegExp`
CompileFilter(rule) ==
    IF TruthyText(rule, "containsRegex")
    THEN LET flags == Field(rule, "containsRegexFlags", "")
         IN  IF RegExpCompiles(rule.containsRegex, flags)
             THEN NewRegExp(rule.containsRegex, flags)
             ELSE UndefinedRegExp
    ELSE UndefinedRegExp

\* `new RegExp` threw: the catch block runs
CompileThrows(rule) ==
    /\ TruthyText(rule, "containsRegex")
    /\ ~RegExpCompiles(rule.containsRegex, Field(rule, "containsRegexFlags", ""))

\* the two console.warn calls of the catch block, made when `loud`
RegExpWarnings(rule, quiet) ==
    IF CompileThrows(rule) /\ ~quiet
    THEN << <<"Invalid regular expression">>,
            <<"new RegExp(", "\"">> \o rule.containsRegex \o <<"\"", ", ">>
              \o (IF Has(rule, "containsRegexFlags")
                  THEN <<"\"", rule.containsRegexFlags, "\"">> ELSE <<"undefined">>)
              \o <<")">> >>
    ELSE <<>>

\* variant: skip only when both filters fail
FilterSkips_Either(contains, contains_string_match, re, contains_regex_match) ==
    /\ contains /\ ~contains_string_match
    /\ re.defined /\ ~contains_regex_match

\* the `continue` condition on the two match results
FilterSkips(contains, contains_string_match, re, contains_regex_match) ==
    \/ contains /\ ~contains_string_match
    \/ re.defined /\ ~contains_regex_match

\* the locals of one iteration whose candidate text is `text`
Iteration(loop, rule, e, text) ==
    LET re == CompileFilter(rule)
        csm == TruthyText(rule, "contains") /\ Includes(text, rule.contains)
        crm == re.defined /\ RegExpTest(re, text)
    IN  [loop |-> loop, rule |-> rule, element |-> e, candidate |-> text, re |-> re,
         contains_string_match |-> csm, contains_regex_match |-> crm,
         pruned |-> ~FilterSkips(TruthyText(rule, "contains"), csm, re, crm)]

\* --------------------------------------------------------- element pruner
\* variant: no default for `empty`
ElementEmpty_NoDefault(rule) == Field(rule, "empty", FALSE)

\* variant: the default applies only to a rule that supplies no `remove` either
ElementEmpty_OnlyWhenNeither(rule) == Field(rule, "empty", ~Has(rule, "remove"))
\* `empty = true` of the destructuring: the default of an unsupplied key
ElementEmpty(rule) == Field(rule, "empty", TRUE)

\* variant: `empty` tested before `remove`
PruneElement_EmptyFirst(d, e, remove, empty, replacement) ==
    IF empty
    THEN IF replacement # <<>>
         THEN AppendComment(ClearChildren(d, e), e, <<" ">> \o replacement \o <<" ">>)
         ELSE ClearChildren(d, e)
    ELSE IF remove THEN RemoveChild(d, d[e].parentNode, e)
         ELSE d

\* variant: an element that is no longer part of the document is left alone
PruneElement_SkipsDetached(d, e, remove, empty, replacement) ==
    IF ~InDocument(d, e) THEN d
    ELSE IF remove THEN RemoveChild(d, d[e].parentNode, e)
    ELSE IF empty
         THEN IF replacement # <<>>
              THEN AppendComment(ClearChildren(d, e), e, <<" ">> \o replacement \o <<" ">>)
              ELSE ClearChildren(d, e)
         ELSE d
\* "We found a matching element! Prune it"
PruneElement(d, e, remove, empty, replacement) ==
    IF remove THEN RemoveChild(d, d[e].parentNode, e)
    ELSE IF empty
         THEN IF replacement # <<>>
              THEN AppendComment(ClearChildren(d, e), e, <<" ">> \o replacement \o <<" ">>)
              ELSE ClearChildren(d, e)
         ELSE d

ElementRule == opt.clean_config.elements[rule_i]

\* the for-of over clean_config.elements is over: on to the attributes
ElementsDone ==
    /\ stage = "elements"
    /\ rule_i > Len(opt.clean_config.elements)
    /\ stage' = "attributes"
    /\ rule_i' = 1
    /\ UNCHANGED <<caller, html_str, opt, document, elements, el_i, iter, warnings, error,
                   formatted_html>>

\* `if (!selector) continue`
ElementRuleSkipped ==
    /\ stage = "elements"
    /\ rule_i <= Len(opt.clean_config.elements)
    /\ ~Has(ElementRule, "selector")
    /\ rule_i' = rule_i + 1
    /\ UNCHANGED <<caller, html_str, opt, stage, document, elements, el_i, iter, warnings, error,
                   formatted_html>>

\* variant: the error names the first rule of the list
ElementRuleThrows_NamesFirst ==
    /\ stage = "elements"
    /\ rule_i <= Len(opt.clean_config.elements)
    /\ Has(ElementRule, "selector")
    /\ ElementRule.selector \notin ValidSelectors
    /\ Throw(<<"Invalid element_to_clean passed: ">>
               \o JSONStringify(opt.clean_config.elements[1]))

\* querySelectorAll throws; the catch rethrows with the rule serialized
ElementRuleThrows ==
    /\ stage = "elements"
    /\ rule_i <= Len(opt.clean_config.elements)
    /\ Has(ElementRule, "selector")
    /\ ElementRule.selector \notin ValidSelectors
    /\ Throw(<<"Invalid element_to_clean passed: ">> \o JSONStringify(ElementRule))

\* querySelectorAll returns the list the loop runs over
ElementRuleSelects ==
    /\ stage = "elements"
    /\ rule_i <= Len(opt.clean_config.elements)
    /\ Has(ElementRule, "selector")
    /\ ElementRule.selector \in ValidSelectors
    /\ LET list == QuerySelectorAll(document, ElementRule.selector)
       IN  /\ elements' = list
           /\ IF list = <<>>
              THEN /\ rule_i' = rule_i + 1
                   /\ UNCHANGED <<stage, el_i>>
              ELSE /\ stage' = "element_loop"
                   /\ el_i' = 1
                   /\ UNCHANGED rule_i
    /\ UNCHANGED <<caller, html_str, opt, document, iter, warnings, error, formatted_html>>

\* one iteration of `for (let element of elements)`
ElementIteration ==
    /\ stage = "element_loop"
    /\ LET e == elements[el_i]
           it == Iteration("elements", ElementRule, e, InnerHTML(document, e))
       IN  /\ iter' = it
           /\ warnings' = warnings \o RegExpWarnings(ElementRule, ~loud)
           /\ document' =
                IF it.pruned
                THEN PruneElement(document, e, TruthyFlag(ElementRule, "remove"),
                                  ElementEmpty(ElementRule),
                                  Field(ElementRule, "replacement", <<>>))
                ELSE document
    /\ IF el_i = Len(elements)
       THEN /\ stage' = "elements"
            /\ rule_i' = rule_i + 1
            /\ el_i' = 0
       ELSE /\ el_i' = el_i + 1
            /\ UNCHANGED <<stage, rule_i>>
    /\ UNCHANGED <<caller, html_str, opt, elements, error, formatted_html>>

\* ------------------------------------------------------- attribute pruner
\* variant: no default for `remove`
AttributeRemove_NoDefault(rule) == Field(rule, "remove", FALSE)

\* variant: the default applies only to a rule that supplies no `empty` either
AttributeRemove_OnlyWhenNeither(rule) == Field(rule, "remove", ~Has(rule, "empty"))

\* `remove = true` and `selector = '*'` of the destructuring
AttributeRemove(rule) == Field(rule, "remove", TRUE)
AttributeSelector(rule) == Field(rule, "selector", "*")

\* variant: `remove` tested before `empty`
PruneAttribute_RemoveFirst(d, e, attribute, remove, empty, replacement) ==
    IF remove THEN RemoveAttribute(d, e, attribute)
    ELSE IF empty
         THEN IF replacement # <<>>
              THEN SetAttribute(d, e, attribute, replacement)
              ELSE SetAttribute(d, e, attribute, <<>>)
         ELSE d

\* variant: the replacement is dropped when emptying
PruneAttribute_NoReplacement(d, e, attribute, remove, empty, replacement) ==
    IF empty THEN SetAttribute(d, e, attribute, <<>>)
    ELSE IF remove THEN RemoveAttribute(d, e, attribute)
         ELSE d

\* "We found a matching attribute! Prune it"
PruneAttribute(d, e, attribute, remove, empty, replacement) ==
    IF empty
    THEN IF replacement # <<>>
         THEN SetAttribute(d, e, attribute, replacement)
         ELSE SetAttribute(d, e, attribute, <<>>)
    ELSE IF remove THEN RemoveAttribute(d, e, attribute)
         ELSE d

AttributeRule == opt.clean_config.attributes[rule_i]

\* the for-of over clean_config.attributes is over
AttributesDone ==
    /\ stage = "attributes"
    /\ rule_i > Len(opt.clean_config.attributes)
    /\ stage' = "reorder_head"
    /\ rule_i' = 0
    /\ UNCHANGED <<caller, html_str, opt, document, elements, el_i, iter, warnings, error,
                   formatted_html>>

\* variant: `break` in place of `continue`
AttributeRuleSkipped_Breaks ==
    /\ stage = "attributes"
    /\ rule_i <= Len(opt.clean_config.attributes)
    /\ ~Has(AttributeRule, "attribute")
    /\ rule_i' = Len(opt.clean_config.attributes) + 1
    /\ UNCHANGED <<caller, html_str, opt, stage, document, elements, el_i, iter, warnings, error,
                   formatted_html>>

\* `if (!attribute) continue`
AttributeRuleSkipped ==
    /\ stage = "attributes"
    /\ rule_i <= Len(opt.clean_config.attributes)
    /\ ~Has(AttributeRule, "attribute")
    /\ rule_i' = rule_i + 1
    /\ UNCHANGED <<caller, html_str, opt, stage, document, elements, el_i, iter, warnings, error,
                   formatted_html>>

\* querySelectorAll throws; the catch rethrows with the rule serialized
AttributeRuleThrows ==
    /\ stage = "attributes"
    /\ rule_i <= Len(opt.clean_config.attributes)
    /\ Has(AttributeRule, "attribute")
    /\ AttributeSelector(AttributeRule) \notin ValidSelectors
    /\ Throw(<<"Invalid attribute_to_clean passed: ">> \o JSONStringify(AttributeRule))

AttributeRuleSelects ==
    /\ stage = "attributes"
    /\ rule_i <= Len(opt.clean_config.attributes)
    /\ Has(AttributeRule, "attribute")
    /\ AttributeSelector(AttributeRule) \in ValidSelectors
    /\ LET list == QuerySelectorAll(document, AttributeSelector(AttributeRule))
       IN  /\ elements' = list
           /\ IF list = <<>>
              THEN /\ rule_i' = rule_i + 1
                   /\ UNCHANGED <<stage, el_i>>
              ELSE /\ stage' = "attribute_loop"
                   /\ el_i' = 1
                   /\ UNCHANGED rule_i
    /\ UNCHANGED <<caller, html_str, opt, document, iter, warnings, error, formatted_html>>

\* one iteration of `for (let element of elements)` of an attribute rule
AttributeIteration ==
    /\ stage = "attribute_loop"
    /\ LET e == elements[el_i]
           name == AttributeRule.attribute
       IN  IF ~HasAttribute(document, e, name)
           THEN /\ iter' = [NoIteration EXCEPT !.loop = "attributes",
                                                !.rule = AttributeRule, !.element = e]
                /\ UNCHANGED <<document, warnings>>
           ELSE LET it == Iteration("attributes", AttributeRule, e,
                                     GetAttribute(document, e, name))
                IN  /\ iter' = it
                    /\ warnings' = warnings \o RegExpWarnings(AttributeRule, ~loud)
                    /\ document' =
                         IF it.pruned
                         THEN PruneAttribute(document, e, name,
                                             AttributeRemove(AttributeRule),
                                             TruthyFlag(AttributeRule, "empty"),
                                             Field(AttributeRule, "replacement", <<>>))
                         ELSE document
    /\ IF el_i = Len(elements)
       THEN /\ stage' = "attributes"
            /\ rule_i' = rule_i + 1
            /\ el_i' = 0
       ELSE /\ el_i' = el_i + 1
            /\ UNCHANGED <<stage, rule_i>>
    /\ UNCHANGED <<caller, html_str, opt, elements, error, formatted_html>>

\* ------------------------------------------------------------- ordering
\* the tokens of the model in ascending string order
TokenOrder ==
    <<"\n", " ", "\"", "-->", "<", "<!--", "</", "=\"", ">", "X", "body", "c", "class",
      "div", "head", "html", "id", "meta", "name", "r", "script", "template", "title",
      "x", "y">>

TokenRank(tok) == CHOOSE i \in DOMAIN TokenOrder : TokenOrder[i] = tok

\* a < b for token sequences, token by token, a proper prefix first
RECURSIVE TextLess(_, _)
TextLess(a, b) ==
    IF b = <<>> THEN FALSE
    ELSE IF a = <<>> THEN TRUE
    ELSE IF Head(a) = Head(b) THEN TextLess(Tail(a), Tail(b))
    ELSE TokenRank(Head(a)) < TokenRank(Head(b))

\* Array.prototype.sort; before[<<a, b>>] tells whether a sorts before b
RECURSIVE SortBy(_, _)
SortBy(s, before) ==
    IF s = <<>> THEN <<>>
    ELSE LET rest == SortBy(Tail(s), before)
             x == Head(s)
             k == Cardinality({i \in DOMAIN rest : before[<<rest[i], x>>]})
         IN  SubSeq(rest, 1, k) \o <<x>> \o SubSeq(rest, k + 1, Len(rest))

\* ------------------------------------------------------- head reordering
head_sort_order == <<"title", "meta", "base", "link", "style", "script", "noscript">>

\* variant: an unlisted tag is given the rank after the last category
HeadRank_UnknownLast(tag) ==
    IF \E i \in DOMAIN head_sort_order : head_sort_order[i] = tag
    THEN (CHOOSE i \in DOMAIN head_sort_order : head_sort_order[i] = tag) - 1
    ELSE Len(head_sort_order)
\* Array.prototype.indexOf: -1 for a tag that is not listed
HeadRank(tag) ==
    IF \E i \in DOMAIN head_sort_order : head_sort_order[i] = tag
    THEN (CHOOSE i \in DOMAIN head_sort_order : head_sort_order[i] = tag) - 1
    ELSE -1

\* variant: the comparator without its text sort, equal ranks compare as equal
HeadBefore_RankOnly(d, a, b) == HeadRank(d[a].tagName) < HeadRank(d[b].tagName)
\* the comparator of head_children.sort
HeadBefore(d, a, b) ==
    IF HeadRank(d[a].tagName) = HeadRank(d[b].tagName)
    THEN TextLess(OuterHTML(d, a), OuterHTML(d, b))
    ELSE HeadRank(d[a].tagName) < HeadRank(d[b].tagName)

\* [...document.head.children] sorted
\* variant: children with a tag head_sort_order does not list are left out
SortedHeadChildren_KnownOnly(d) ==
    LET head_children == SelectSeq(d[DocumentHead(d)].childNodes,
                                   LAMBDA c : IsElement(d, c) /\ HeadRank(d[c].tagName) # -1)
        before == [p \in Range(head_children) \X Range(head_children) |->
                     HeadBefore(d, p[1], p[2])]
    IN  SortBy(head_children, before)
SortedHeadChildren(d) ==
    LET head_children == SelectSeq(d[DocumentHead(d)].childNodes, LAMBDA c : IsElement(d, c))
        before == [p \in Range(head_children) \X Range(head_children) |->
                     HeadBefore(d, p[1], p[2])]
    IN  SortBy(head_children, before)

\* document.head.innerHTML = the sorted outerHTMLs joined by "\n": the head is
\* left with the sorted elements and a line-break text node between neighbours
RECURSIVE JoinWithBreaks(_, _, _)
JoinWithBreaks(d, head, kids) ==
    IF Len(kids) <= 1 THEN [d EXCEPT ![head].childNodes = @ \o kids]
    ELSE LET t == Len(d) + 1
             d1 == [Append(d, [TextNode(<<"\n">>) EXCEPT !.parentNode = head])
                       EXCEPT ![head].childNodes = @ \o <<Head(kids), t>>]
         IN  JoinWithBreaks(d1, head, Tail(kids))

SetHeadChildren(d, kids) ==
    LET head == DocumentHead(d)
        cleared == [n \in DOMAIN d |->
                      IF n = head THEN [d[n] EXCEPT !.childNodes = <<>>]
                      ELSE IF d[n].parentNode = head /\ ~IsElement(d, n)
                           THEN [d[n] EXCEPT !.parentNode = NULL]
                           ELSE d[n]]
    IN  JoinWithBreaks(cleared, head, kids)

\* the warnings of the comparator, one for each child with an unlisted tag
\* that takes part in a comparison
HeadWarnings(d, quiet) ==
    LET kids == SelectSeq(d[DocumentHead(d)].childNodes, LAMBDA c : IsElement(d, c))
        odd == SelectSeq(kids, LAMBDA c : HeadRank(d[c].tagName) = -1)
    IN  IF quiet \/ Len(kids) < 2 THEN <<>>
        ELSE [i \in DOMAIN odd |-> <<"Unknown tag type in HEAD: ", d[odd[i]].tagName>>]

ReorderHeadSkipped ==
    /\ stage = "reorder_head"
    /\ ~reorder_head_tags
    /\ stage' = "sort_attributes"
    /\ UNCHANGED <<caller, html_str, opt, document, rule_i, elements, el_i, iter, warnings, error,
                   formatted_html>>

ReorderHead ==
    /\ stage = "reorder_head"
    /\ reorder_head_tags
    /\ DocumentHead(document) # NULL
    /\ document' = SetHeadChildren(document, SortedHeadChildren(document))
    /\ warnings' = warnings \o HeadWarnings(document, ~loud)
    /\ stage' = "sort_attributes"
    /\ UNCHANGED <<caller, html_str, opt, rule_i, elements, el_i, iter, error, formatted_html>>

\* document.head is null: reading `.children` of it throws
ReorderHeadThrows ==
    /\ stage = "reorder_head"
    /\ reorder_head_tags
    /\ DocumentHead(document) = NULL
    /\ Throw(<<"TypeError">>)

\* ------------------------------------------------------ attribute sorting
\* variant: reverse() in place of sort()
AttrsSorted_Reversed(d, n) ==
    Reverse([i \in DOMAIN d[n].attributes |-> d[n].attributes[i][1]])

\* getAttributeNames() then Array.prototype.sort() without a comparator
AttrsSorted(d, n) ==
    LET names == [i \in DOMAIN d[n].attributes |-> d[n].attributes[i][1]]
        before == [p \in Range(names) \X Range(names) |-> TokenRank(p[1]) < TokenRank(p[2])]
    IN  SortBy(names, before)

RECURSIVE RemoveAll(_, _, _)
RemoveAll(d, n, names) ==
    IF names = <<>> THEN d ELSE RemoveAll(RemoveAttribute(d, n, Head(names)), n, Tail(names))

RECURSIVE SetAll(_, _, _, _)
SetAll(d, n, names, values) ==
    IF names = <<>> THEN d
    ELSE SetAll(SetAttribute(d, n, Head(names), values[Head(names)]), n, Tail(names), values)

\* variant: only attributes with a non-empty value are set back
reorderAttributesOnNode_SkipsEmpty(d, n) ==
    IF IsElement(d, n) /\ d[n].attributes # <<>>
    THEN LET attrs_sorted == AttrsSorted(d, n)
             attrs_obj == [a \in Range(attrs_sorted) |-> GetAttribute(d, n, a)]
         IN  SetAll(RemoveAll(d, n, attrs_sorted), n,
                    SelectSeq(attrs_sorted, LAMBDA a : attrs_obj[a] # <<>>), attrs_obj)
    ELSE d
reorderAttributesOnNode(d, n) ==
    IF IsElement(d, n) /\ d[n].attributes # <<>>
    THEN LET attrs_sorted == AttrsSorted(d, n)
             attrs_obj == [a \in Range(attrs_sorted) |-> GetAttribute(d, n, a)]
         IN  SetAll(RemoveAll(d, n, attrs_sorted), n, attrs_sorted, attrs_obj)
    ELSE d

\* walkTheDOM from the root element, each node reordered in place (the
\* reordering of a node writes that node only)
sortAttributesOnDomTreeInPlace(d) ==
    LET walked == Range(PreOrder(d, DocumentElement(d)))
    IN  [n \in DOMAIN d |-> IF n \in walked THEN reorderAttributesOnNode(d, n)[n] ELSE d[n]]

SortAttributes ==
    /\ stage = "sort_attributes"
    /\ DocumentElement(document) # NULL
    /\ document' = sortAttributesOnDomTreeInPlace(document)
    /\ stage' = "serialize"
    /\ UNCHANGED <<caller, html_str, opt, rule_i, elements, el_i, iter, warnings, error,
                   formatted_html>>

\* documentElement is null: walkTheDOM yields null and `node.hasAttributes` throws
SortAttributesThrows ==
    /\ stage = "sort_attributes"
    /\ DocumentElement(document) = NULL
    /\ Throw(<<"TypeError">>)

\* --------------------------------------------------------- serialization
\* second minify (comments kept), beautify, indentation removed, return
\* indent_size: 1
Indent(depth) == [i \in 1..depth |-> " "]

StartTag(d, n) == <<"<", d[n].tagName>> \o AttributesHTML(d[n].attributes) \o <<">">>
EndTag(d, n) == <<"</", d[n].tagName, ">">>

\* the lines js-beautify prints for a node: an element with children opens
\* and closes on lines of its own and its children are indented one level
\* deeper; the content of script and pre is printed as it is
RECURSIVE BeautifyLines(_, _, _)
BeautifyLines(d, n, depth) ==
    IF ~IsElement(d, n) \/ d[n].childNodes = <<>> \/ d[n].tagName \in content_unformatted
    THEN << Indent(depth) \o OuterHTML(d, n) >>
    ELSE << Indent(depth) \o StartTag(d, n) >>
         \o Concat([i \in DOMAIN d[n].childNodes |->
                      BeautifyLines(d, d[n].childNodes[i], depth + 1)])
         \o << Indent(depth) \o EndTag(d, n) >>

\* the lines joined by `sep`
JoinLines(lines) ==
    Concat([i \in DOMAIN lines |-> (IF i = 1 THEN <<>> ELSE <<"\n">>) \o lines[i]])

htmlBeautify(d) == JoinLines(BeautifyLines(d, DocumentElement(d), 0))

\* String.prototype.replace with /^\s*/gm and '': at the start of the string
\* and after every line break the run of white space that follows is dropped
\* (a token is dropped when it is white space and only white space lies
\* between it and the line start before it)
StripLines(s, at_line_start) ==
    LET Dropped(i) ==
            /\ s[i] \in Whitespace
            /\ \E k \in 0..(i - 1) :
                 /\ \A j \in (k + 1)..i : s[j] \in Whitespace
                 /\ IF k = 0 THEN at_line_start ELSE s[k] = "\n"
        kept == SelectSeq([i \in DOMAIN s |-> i], LAMBDA i : ~Dropped(i))
    IN  [j \in DOMAIN kept |-> s[kept[j]]]

\* variant: the pattern without its `m` flag, only the start of the string is stripped
StripIndentation_StartOnly(s) ==
    LET k == CHOOSE k \in 0..Len(s) :
                 /\ \A i \in 1..k : s[i] \in Whitespace
                 /\ k = Len(s) \/ s[k + 1] \notin Whitespace
    IN  SubSeq(s, k + 1, Len(s))

StripIndentation(s) == StripLines(s, TRUE)

Serialize ==
    /\ stage = "serialize"
    /\ formatted_html' = StripIndentation(htmlBeautify(htmlMinify(document, FALSE)))
    /\ stage' = "done"
    /\ UNCHANGED <<caller, html_str, opt, document, rule_i, elements, el_i, iter, warnings, error>>

\* ---------------------------------------------------------- specification
Next ==
    \/ MinifyOk
    \/ MinifyThrows
    \/ ElementsDone
    \/ ElementRuleSkipped
    \/ ElementRuleThrows
    \/ ElementRuleSelects
    \/ ElementIteration
    \/ AttributesDone
    \/ AttributeRuleSkipped
    \/ AttributeRuleThrows
    \/ AttributeRuleSelects
    \/ AttributeIteration
    \/ ReorderHeadSkipped
    \/ ReorderHead
    \/ ReorderHeadThrows
    \/ SortAttributes
    \/ SortAttributesThrows
    \/ Serialize

Spec == Init /\ [][Next]_vars

\* ------------------------------------------------------ successive calls
\* A caller makes a second call in the same process once the first has
\* returned: on the string it got back, or on a page that differs from the
\* first in attribute order only, as a local and a remote build of a page do.
\* the same markup with the attributes of every element written the other way round
ReverseAttributes(d) == [n \in DOMAIN d |-> [d[n] EXCEPT !.attributes = Reverse(@)]]

\* the content of script and pre as the returned string holds it
StripUnformatted(d) ==
    [n \in DOMAIN d |->
        IF d[n].nodeType = "text" /\ d[n].parentNode # NULL
           /\ d[d[n].parentNode].tagName \in content_unformatted
        THEN [d[n] EXCEPT !.data = StripLines(@, FALSE)]
        ELSE d[n]]

\* the parser gives the root element a head and a body when the markup has none
EnsureHeadBody(d) ==
    LET root == DocumentElement(d)
        Lacks(t, tag) == \A i \in DOMAIN t[root].childNodes :
                             t[t[root].childNodes[i]].tagName # tag
        Fresh(tag) == [ElementNode(tag, <<>>, <<>>) EXCEPT !.parentNode = root]
        d1 == IF Lacks(d, "head")
              THEN [Append(d, Fresh("head")) EXCEPT ![root].childNodes = <<Len(d) + 1>> \o @]
              ELSE d
    IN  IF Lacks(d1, "body")
        THEN [Append(d1, Fresh("body")) EXCEPT ![root].childNodes = Append(@, Len(d1) + 1)]
        ELSE d1

\* the tree a parser builds from the string returned for document d
ParseReturned(d) == EnsureHeadBody(StripUnformatted(htmlMinify(d, FALSE)))

\* the locals of a new call; the global formatted_html keeps its value
NewCall(how, html) ==
    /\ stage = "done"
    /\ caller.call = 1
    /\ caller' = [call |-> 2, input |-> how, returned |-> formatted_html]
    /\ html_str' = html
    /\ stage' = "minify"
    /\ document' = <<DocumentNode(<<>>)>>
    /\ rule_i' = 0
    /\ elements' = <<>>
    /\ el_i' = 0
    /\ iter' = NoIteration
    /\ error' = <<>>
    /\ UNCHANGED <<opt, warnings, formatted_html>>

\* canonicalize(canonicalize(x, opts), opts)
CallAgain == NewCall("returned", [wellformed |-> TRUE, tree |-> ParseReturned(document)])

\* the page of the other build: the attributes are written in another order
CallReordered == NewCall("reordered", [html_str EXCEPT !.tree = ReverseAttributes(@)])

\* the rules of the configurations the two calls are made with
CallerElementRules == ListElementRules \cup {[selector |-> "*", remove |-> TRUE]}

CallerConfigs ==
    {[elements |-> es, attributes |-> as] :
        es \in SeqUpTo(CallerElementRules, 1), as \in SeqUpTo(ListAttributeRules, 1)}

InitTwice == Init /\ opt.clean_config \in CallerConfigs

NextTwice ==
    \/ Next
    \/ CallAgain
    \/ CallReordered

SpecTwice == InitTwice /\ [][NextTwice]_vars

\* ============================================================== claims
\* The rule matcher as specified: a supplied `contains` must be a substring,
\* a supplied pattern that compiles must match, an uncompilable one is ignored.
RuleMatcher(text, rule) ==
    /\ TruthyText(rule, "contains") => Includes(text, rule.contains)
    /\ (TruthyText(rule, "containsRegex") /\ ~CompileThrows(rule))
         => RegExpTest(NewRegExp(rule.containsRegex, Field(rule, "containsRegexFlags", "")),
                       text)

\* the element the pending iteration is about
Pending == elements[el_i]

\* the pending iteration is of an element rule and its element passes the filter
ElementMatchPending ==
    /\ stage = "element_loop"
    /\ RuleMatcher(InnerHTML(document, Pending), ElementRule)

\* the pending iteration is of an attribute rule, its element carries the
\* attribute and the value passes the filter
AttributeMatchPending ==
    /\ stage = "attribute_loop"
    /\ HasAttribute(document, Pending, AttributeRule.attribute)
    /\ RuleMatcher(GetAttribute(document, Pending, AttributeRule.attribute), AttributeRule)

\* C1: an element rule with a truthy `remove` detaches every selected element
\* that passes the filter, whatever `empty` and `replacement` are: the element
\* is no child of any node, is not connected to the document, and was not
\* emptied or given a replacement comment.
C1_RemoveOverridesEmpty ==
    [][(ElementMatchPending /\ TruthyFlag(ElementRule, "remove"))
        => /\ document'[Pending].parentNode = NULL
           /\ \A n \in DOMAIN document' : Pending \notin Range(document'[n].childNodes)
           /\ ~InDocument(document', Pending)
           /\ document'[Pending].childNodes = document[Pending].childNodes
           /\ Len(document') = Len(document)]_vars

C1_Witness ==
    /\ iter.loop = "elements" /\ iter.pruned
    /\ TruthyFlag(iter.rule, "remove") /\ TruthyFlag(iter.rule, "empty")
    /\ Has(iter.rule, "replacement")
    /\ document[iter.element].parentNode = NULL
    /\ document[iter.element].childNodes # <<>>

C4_ElementDefaultEmpties ==
    [][(ElementMatchPending /\ ~Has(ElementRule, "remove") /\ ~Has(ElementRule, "empty"))
        => /\ \A c \in Range(document[Pending].childNodes) :
                /\ document'[c].parentNode = NULL
                /\ c \notin Range(document'[Pending].childNodes)
           /\ \A c \in Range(document'[Pending].childNodes) :
                c \notin DOMAIN document /\ document'[c].nodeType = "comment"
           /\ document'[Pending].tagName = document[Pending].tagName
           /\ document'[Pending].attributes = document[Pending].attributes
           /\ document'[Pending].parentNode = document[Pending].parentNode
           /\ \A n \in DOMAIN document :
                n # Pending => document'[n].childNodes = document[n].childNodes]_vars

C4_Witness ==
    /\ iter.loop = "elements" /\ iter.pruned
    /\ ~Has(iter.rule, "remove") /\ ~Has(iter.rule, "empty")
    /\ iter.candidate # <<>>
    /\ InDocument(document, iter.element)
    /\ document[iter.element].attributes # <<>>
    /\ InnerHTML(document, iter.element) = <<>>

\* C5: an attribute rule that supplies neither `remove` nor `empty` deletes
\* the named attribute from every selected element that carries it and passes
\* the filter; the element's other attributes stay.
C5_AttributeDefaultRemoves ==
    [][(AttributeMatchPending /\ ~Has(AttributeRule, "remove") /\ ~Has(AttributeRule, "empty"))
        => /\ ~HasAttribute(document', Pending, AttributeRule.attribute)
           /\ document'[Pending].attributes =
                SelectSeq(document[Pending].attributes,
                          LAMBDA a : a[1] # AttributeRule.attribute)]_vars

C5_Witness ==
    /\ iter.loop = "attributes" /\ iter.pruned
    /\ ~Has(iter.rule, "remove") /\ ~Has(iter.rule, "empty")
    /\ ~HasAttribute(document, iter.element, iter.rule.attribute)
    /\ document[iter.element].attributes # <<>>

\* the text the filter of the pending iteration runs on
PendingCandidate ==
    IF stage = "element_loop" THEN InnerHTML(document, Pending)
    ELSE GetAttribute(document, Pending, AttributeRule.attribute)

PendingRule == IF stage = "element_loop" THEN ElementRule ELSE AttributeRule

\* the pending iteration has a candidate to filter
CandidatePending ==
    \/ stage = "element_loop"
    \/ stage = "attribute_loop" /\ HasAttribute(document, Pending, AttributeRule.attribute)

\* C6: with `contains` and a valid `containsRegex` both supplied a candidate is
\* pruned only if it includes `contains` and the pattern matches it; with one
\* of them supplied that one decides; with neither every candidate is pruned.
\* A candidate that fails a filter is left untouched.
C6_FilterConjunction ==
    [][(CandidatePending /\ ~CompileThrows(PendingRule))
        => LET both == /\ TruthyText(PendingRule, "contains")
                          => Includes(PendingCandidate, PendingRule.contains)
                       /\ TruthyText(PendingRule, "containsRegex")
                          => RegExpTest(NewRegExp(PendingRule.containsRegex,
                                                  Field(PendingRule, "containsRegexFlags", "")),
                                        PendingCandidate)
           IN  /\ iter'.pruned = both
               /\ ~both => document' = document
               /\ (both /\ TruthyFlag(PendingRule, "remove") /\ ~Has(PendingRule, "empty"))
                    => document' # document]_vars

C6_Witness ==
    /\ iter.loop = "elements"
    /\ TruthyText(iter.rule, "contains") /\ iter.re.defined
    /\ iter.contains_string_match /\ ~iter.contains_regex_match
    /\ ~iter.pruned
    /\ InnerHTML(document, iter.element) = iter.candidate

\* the locals of the iteration just made say the filter let the candidate through
\* exactly when `contains`, if supplied, is a substring of it
ContainsAlone(text, rule) == TruthyText(rule, "contains") => Includes(text, rule.contains)

\* the pending iteration is the last one of its rule
LastPending == el_i = Len(elements)

\* C7 as stated: whenever a candidate is filtered by a rule whose pattern does
\* not compile, the regex filter is ignored, a warning is reported and the pass
\* goes on.
C7_WarningAlways_Original ==
    [][(CandidatePending /\ CompileThrows(PendingRule))
        => /\ iter'.pruned = ContainsAlone(PendingCandidate, PendingRule)
           /\ warnings' # warnings
           /\ stage' # "failed"]_vars

\* C7 (amended): a pattern that does not compile is ignored as a filter
\* (`contains`, if supplied, decides alone), raises no error and does not stop
\* the loop: the next element, or after the last element the next rule, is
\* processed. The warning is reported once per candidate examined and only
\* when `quiet` is off; nothing is reported by a quiet call or outside an
\* iteration.
C7_InvalidRegexFailsOpen ==
    [][/\ (CandidatePending /\ CompileThrows(PendingRule))
            => /\ iter'.pruned = ContainsAlone(PendingCandidate, PendingRule)
               /\ ~ContainsAlone(PendingCandidate, PendingRule) => document' = document
               /\ (ContainsAlone(PendingCandidate, PendingRule)
                     /\ TruthyFlag(PendingRule, "remove") /\ ~Has(PendingRule, "empty"))
                    => document' # document
               /\ Len(warnings') = Len(warnings) + (IF ~loud THEN 0 ELSE 2)
               /\ loud =>
                    /\ warnings'[Len(warnings) + 1] = <<"Invalid regular expression">>
                    /\ Includes(warnings'[Len(warnings) + 2], PendingRule.containsRegex)
               /\ stage' # "failed" /\ error' = <<>>
               /\ ~LastPending => (el_i' = el_i + 1 /\ stage' = stage /\ rule_i' = rule_i)
               /\ LastPending => (rule_i' = rule_i + 1
                                   /\ stage' = (IF stage = "element_loop" THEN "elements"
                                                ELSE "attributes"))
       /\ stage \in {"elements", "attributes"} => warnings' = warnings]_vars

C7_Witness ==
    /\ stage = "done" /\ formatted_html # <<>>
    /\ iter.loop = "elements" /\ CompileThrows(iter.rule)
    /\ TruthyText(iter.rule, "contains") /\ iter.pruned
    /\ loud /\ Len(warnings) >= 4

\* a rule whose selection throws
MalformedElementRule(rule) == Has(rule, "selector") /\ rule.selector \notin ValidSelectors

MalformedAttributeRule(rule) ==
    Has(rule, "attribute") /\ Field(rule, "selector", "*") \notin ValidSelectors

\* C8: when a rule's selection throws the call fails with an error made of the
\* serialized form of that very rule, the first malformed rule of the
\* configuration; no string is returned, the document is not touched again and
\* no statement runs after the failure.
C8_MalformedRuleIsFatal ==
    /\ [](stage = "failed" /\ error # <<"TypeError">> /\ error # <<"minify: parse error">>
            => /\ formatted_html = <<>>
               /\ \/ /\ Head(error) = "Invalid element_to_clean passed: "
                     /\ rule_i \in DOMAIN opt.clean_config.elements
                     /\ Tail(error) = JSONStringify(opt.clean_config.elements[rule_i])
                     /\ MalformedElementRule(opt.clean_config.elements[rule_i])
                     /\ \A j \in 1..(rule_i - 1) :
                          /\ ~MalformedElementRule(opt.clean_config.elements[j])
                          /\ Tail(error) # JSONStringify(opt.clean_config.elements[j])
                  \/ /\ Head(error) = "Invalid attribute_to_clean passed: "
                     /\ rule_i \in DOMAIN opt.clean_config.attributes
                     /\ Tail(error) = JSONStringify(opt.clean_config.attributes[rule_i])
                     /\ MalformedAttributeRule(opt.clean_config.attributes[rule_i])
                     /\ \A j \in DOMAIN opt.clean_config.elements :
                          ~MalformedElementRule(opt.clean_config.elements[j])
                     /\ \A j \in 1..(rule_i - 1) :
                          /\ ~MalformedAttributeRule(opt.clean_config.attributes[j])
                          /\ Tail(error) # JSONStringify(opt.clean_config.attributes[j]))
    /\ [][/\ (stage = "elements" /\ rule_i \in DOMAIN opt.clean_config.elements
                /\ MalformedElementRule(ElementRule))
             => (stage' = "failed" /\ document' = document /\ formatted_html' = <<>>)
          /\ (stage = "attributes" /\ rule_i \in DOMAIN opt.clean_config.attributes
                /\ MalformedAttributeRule(AttributeRule))
             => (stage' = "failed" /\ document' = document /\ formatted_html' = <<>>)
          /\ stage # "failed"]_vars

C8_Witness ==
    /\ stage = "failed" /\ rule_i = 2
    /\ Head(error) = "Invalid element_to_clean passed: "
    /\ Tail(error) = JSONStringify(opt.clean_config.elements[2])
    /\ opt.clean_config.elements[1] # opt.clean_config.elements[2]
    /\ iter.pruned /\ iter.rule = opt.clean_config.elements[1]
    /\ opt.clean_config.attributes # <<>>
    /\ formatted_html = <<>>

\* C9: an element rule without `selector` and an attribute rule without
\* `attribute` change nothing and raise nothing; the loop moves on to the very
\* next rule of the list.
C9_MissingFieldSkipsRule ==
    [][/\ (stage = "elements" /\ rule_i \in DOMAIN opt.clean_config.elements
             /\ ~Has(ElementRule, "selector"))
            => /\ document' = document /\ error' = <<>> /\ warnings' = warnings
               /\ stage' = "elements" /\ rule_i' = rule_i + 1
       /\ (stage = "attributes" /\ rule_i \in DOMAIN opt.clean_config.attributes
             /\ ~Has(AttributeRule, "attribute"))
            => /\ document' = document /\ error' = <<>> /\ warnings' = warnings
               /\ stage' = "attributes" /\ rule_i' = rule_i + 1]_vars

C9_Witness ==
    /\ Len(opt.clean_config.attributes) = 2
    /\ ~Has(opt.clean_config.attributes[1], "attribute")
    /\ Len(opt.clean_config.elements) = 2
    /\ ~Has(opt.clean_config.elements[2], "selector")
    /\ stage = "done"
    /\ iter.loop = "attributes" /\ iter.pruned
    /\ iter.rule = opt.clean_config.attributes[2]

\* C10: when an element rule empties a matched element and `replacement` is a
\* string r, the element is left with exactly one child, a new comment node
\* whose text is a space, r, a space; without `replacement` it has no child.
C10_ReplacementIsComment ==
    [][(ElementMatchPending /\ ~TruthyFlag(ElementRule, "remove")
          /\ (Has(ElementRule, "empty") => ElementRule.empty))
        => IF TruthyText(ElementRule, "replacement")
           THEN /\ Len(document') = Len(document) + 1
                /\ document'[Pending].childNodes = <<Len(document')>>
                /\ document'[Len(document')].nodeType = "comment"
                /\ document'[Len(document')].data
                     = <<" ">> \o ElementRule.replacement \o <<" ">>
                /\ document'[Len(document')].parentNode = Pending
                /\ InnerHTML(document', Pending)
                     = <<"<!--", " ">> \o ElementRule.replacement \o <<" ", "-->">>
           ELSE /\ document'[Pending].childNodes = <<>>
                /\ Len(document') = Len(document)]_vars

C10_Witness ==
    /\ iter.loop = "elements" /\ iter.pruned
    /\ TruthyFlag(iter.rule, "empty") /\ ~TruthyFlag(iter.rule, "remove")
    /\ TruthyText(iter.rule, "replacement")
    /\ iter.candidate # <<>>
    /\ InDocument(document, iter.element)
    /\ InnerHTML(document, iter.element) = <<"<!--", " ", "r", " ", "-->">>

\* ---------------------------------------------------------------- C11
\* position of the pending element in the child list of its parent
PendingPosition ==
    CHOOSE i \in DOMAIN document[document[Pending].parentNode].childNodes :
        document[document[Pending].parentNode].childNodes[i] = Pending

\* C11: when an element rule uses `remove` together with `replacement`, the
\* removed element is replaced by the replacement: after the iteration the
\* parent holds, at the position the element had, a comment housing the
\* replacement value, so the removal leaves a trace.
C11_RemoveLeavesReplacement ==
    [][(ElementMatchPending /\ TruthyFlag(ElementRule, "remove")
          /\ TruthyText(ElementRule, "replacement")
          /\ document[Pending].parentNode # NULL)
        => LET parent == document[Pending].parentNode
               at == PendingPosition
           IN  /\ Len(document'[parent].childNodes) = Len(document[parent].childNodes)
               /\ LET c == document'[parent].childNodes[at]
                  IN  /\ document'[c].nodeType = "comment"
                      /\ document'[c].data = <<" ">> \o ElementRule.replacement \o <<" ">>]_vars

\* ---------------------------------------------------------------- C12
\* C12: attribute-order invariance. Two documents that differ only in the
\* order in which attributes are written on their elements canonicalize,
\* under the same options, to the same string: when the call on the
\* reordered page returns, it returns what the first call returned, and it
\* does not fail where the first call returned.
C12_AttributeOrderInvariance ==
    (caller.call = 2 /\ caller.input = "reordered")
        => /\ stage # "failed"
           /\ stage = "done" => formatted_html = caller.returned

\* ---------------------------------------------------------------- C13
\* the second call was made on the string the first call returned
SecondRun == caller.call = 2 /\ caller.input = "returned"

NoRules(config) == config.elements = <<>> /\ config.attributes = <<>>

HeadElements(d) == SelectSeq(d[DocumentHead(d)].childNodes, LAMBDA c : IsElement(d, c))

KnownCategory(tag) == tag \in Range(head_sort_order)
Category(tag) == CHOOSE i \in DOMAIN head_sort_order : head_sort_order[i] = tag

\* C14: head category order. With head reordering enabled, after the pass the
\* head holds the element children it had, in category order TITLE, META,
\* BASE, LINK, STYLE, SCRIPT, NOSCRIPT (no element of a later category
\* precedes one of an earlier category), elements of one category in
\* ascending order of their serialized markup, whatever their original
\* order; with the option off the pass leaves the document as parsed.
C14_HeadCategoryOrder ==
    [][(stage = "reorder_head" /\ DocumentHead(document) # NULL)
        => IF reorder_head_tags
           THEN LET was == HeadElements(document)
                    now == HeadElements(document')
                IN  /\ Len(now) = Len(was)
                    /\ Range(now) = Range(was)
                    /\ \A i, j \in DOMAIN now :
                          i < j =>
                            LET a == document'[now[i]].tagName
                                b == document'[now[j]].tagName
                            IN  /\ (KnownCategory(a) /\ KnownCategory(b))
                                      => Category(a) <= Category(b)
                                /\ a = b => ~TextLess(OuterHTML(document', now[j]),
                                                      OuterHTML(document', now[i]))
           ELSE document' = document]_vars

\* the pass has moved head children: two of one category and others
C14_Witness ==
    /\ stage = "sort_attributes"
    /\ reorder_head_tags
    /\ DocumentHead(document) # NULL
    /\ HeadElements(document) # HeadElements(html_str.tree)
    /\ \E i, j \in DOMAIN HeadElements(document) :
          /\ i < j
          /\ document[HeadElements(document)[i]].tagName = "meta"
          /\ document[HeadElements(document)[j]].tagName = "meta"
    /\ \E i \in DOMAIN HeadElements(document) :
          document[HeadElements(document)[i]].tagName = "title"

\* ---------------------------------------------------------------- C15
\* the head reordering pass is about to run on a head that is there
ReorderPending ==
    stage = "reorder_head" /\ reorder_head_tags /\ DocumentHead(document) # NULL

UnknownTag(d, n) == ~KnownCategory(d[n].tagName)

\* the diagnostic that names the tag of node n
NamesTag(w, d, n) == w = <<"Unknown tag type in HEAD: ", d[n].tagName>>

\* the children with unlisted tags are in ascending order of their markup
UnknownAscending(d) ==
    \A i, j \in DOMAIN HeadElements(d) :
        (i < j /\ UnknownTag(d, HeadElements(d)[i]) /\ UnknownTag(d, HeadElements(d)[j]))
            => ~TextLess(OuterHTML(d, HeadElements(d)[j]), OuterHTML(d, HeadElements(d)[i]))

\* C15 as stated: a head child whose tag is not in the category list is
\* placed after all children of known categories, the unknown ones ordered
\* among themselves by serialized markup, a diagnostic naming the tag is
\* emitted for it, and processing continues.
C15_UnknownRanksLast_Original ==
    [][ReorderPending
        => LET now == HeadElements(document')
           IN  /\ \A i, j \in DOMAIN now :
                     (i < j /\ UnknownTag(document', now[i])) => UnknownTag(document', now[j])
               /\ UnknownAscending(document')
               /\ \A i \in DOMAIN now :
                     UnknownTag(document', now[i])
                        => \E k \in DOMAIN warnings' : NamesTag(warnings'[k], document', now[i])
               /\ stage' = "sort_attributes"]_vars

\* C15: a head child whose tag is not in the category list is placed before
\* all children of known categories, the unknown ones ordered among
\* themselves by serialized markup; when `quiet` is off and the head has
\* two element children or more a diagnostic naming the tag is emitted for
\* it, otherwise none is; the pass raises no error and processing continues.
C15_UnknownRanksFirst ==
    [][ReorderPending
        => LET now == HeadElements(document')
               new == SubSeq(warnings', Len(warnings) + 1, Len(warnings'))
           IN  /\ \A i, j \in DOMAIN now :
                     (i < j /\ UnknownTag(document', now[j])) => UnknownTag(document', now[i])
               /\ UnknownAscending(document')
               /\ IF loud /\ Len(now) >= 2
                  THEN \A i \in DOMAIN now :
                          UnknownTag(document', now[i])
                             => \E k \in DOMAIN new : NamesTag(new[k], document', now[i])
                  ELSE new = <<>>
               /\ stage' = "sort_attributes"
               /\ error' = <<>>]_vars

\* the pass has run on a head with a `template` that did not stand first,
\* and has reported it
C15_Witness ==
    /\ stage = "sort_attributes"
    /\ reorder_head_tags /\ loud
    /\ DocumentHead(document) # NULL
    /\ Len(HeadElements(document)) >= 3
    /\ document[HeadElements(document)[1]].tagName = "template"
    /\ document[HeadElements(html_str.tree)[1]].tagName # "template"
    /\ \E k \in DOMAIN warnings : warnings[k] = <<"Unknown tag type in HEAD: ", "template">>

\* ---------------------------------------------------------------- C16
\* the first minify is about to fail on the input
MinifyFails == stage = "minify" /\ ~html_str.wellformed

\* the caller asked for recovery
RecoveryEnabled == TruthyFlag(opt, "tidy_on_bad_html")

MinifyError == <<"minify: parse error">>

\* C16: minify failure policy. When the first minify fails and
\* tidy_on_bad_html is not enabled (it is off by default), the call fails
\* with the error of the minifier, returns no string and runs no later stage;
\* when it is enabled, the raw input is parsed tolerantly, the markup of the
\* root element of that parse is minified and the pipeline goes on from there.
C16_MinifyFailurePolicy ==
    [][/\ MinifyFails =>
            IF RecoveryEnabled
            THEN /\ stage' = "elements"
                 /\ error' = <<>>
                 /\ DocumentElement(document') # NULL
                 /\ OuterHTML(document', DocumentElement(document'))
                      = OuterHTML(StripComments(html_str.tree),
                                  DocumentElement(html_str.tree))
            ELSE /\ stage' = "failed"
                 /\ error' = MinifyError
                 /\ formatted_html' = <<>>
                 /\ document' = document
       /\ ~(stage = "failed" /\ error = MinifyError)]_vars

\* a call that left tidy_on_bad_html out has failed on malformed markup
C16_Witness ==
    /\ stage = "failed"
    /\ error = MinifyError
    /\ ~html_str.wellformed
    /\ ~Has(opt, "tidy_on_bad_html")
    /\ formatted_html = <<>>

\* ---------------------------------------------------------------- C17
\* position i of s is the first of a line
LineStart(s, i) == i = 1 \/ s[i - 1] = "\n"

\* C17: indentation flattening. In every returned string no line begins with
\* a white space character, the lines inside script and pre content included.
C17_NoLineBeginsWithWhitespace ==
    stage = "done"
        => \A i \in DOMAIN formatted_html :
              LineStart(formatted_html, i) => formatted_html[i] \notin Whitespace

\* a string has been returned for a page whose script text had an indented
\* second line and whose elements were nested (and so indented by beautify)
C17_Witness ==
    /\ stage = "done"
    /\ \E n \in DOMAIN document :
          /\ document[n].nodeType = "text"
          /\ InDocument(document, n)
          /\ Includes(document[n].data, <<"\n", " ", "x">>)
    /\ Includes(formatted_html, <<"<", "script", ">", "y", "\n", "x", "</", "script", ">">>)
    /\ Includes(formatted_html, <<"\n", "<", "head", ">", "\n", "<">>)

\* ---------------------------------------------------------------- C18
\* the attributes of a node as a set of name/value pairs
AttributeSet(d, n) == Range(d[n].attributes)

\* the names of the attribute list are in strictly ascending order
NamesAscending(attrs) ==
    \A i, j \in DOMAIN attrs : i < j => TokenRank(attrs[i][1]) < TokenRank(attrs[j][1])

\* C18: attribute canonicalization. After sortAttributesOnDomTreeInPlace
\* every element reachable from the root has the attribute names it had,
\* with the same values, in ascending lexicographic order of name, and the
\* pass has added, removed or moved no node.
C18_AttributesSortedInPlace ==
    [][(stage = "sort_attributes" /\ DocumentElement(document) # NULL)
        => /\ DOMAIN document' = DOMAIN document
           /\ \A n \in DOMAIN document :
                 /\ document'[n].nodeType = document[n].nodeType
                 /\ document'[n].tagName = document[n].tagName
                 /\ document'[n].childNodes = document[n].childNodes
                 /\ document'[n].parentNode = document[n].parentNode
                 /\ document'[n].data = document[n].data
           /\ \A n \in Range(PreOrder(document, DocumentElement(document))) :
                 /\ AttributeSet(document', n) = AttributeSet(document, n)
                 /\ Len(document'[n].attributes) = Len(document[n].attributes)
                 /\ NamesAscending(document'[n].attributes)]_vars

\* the pass has run on an element that had `id` written before `class`
\* and on one with an empty attribute value
C18_Witness ==
    /\ stage = "serialize"
    /\ \E n \in DOMAIN document :
          /\ InDocument(document, n)
          /\ document[n].attributes = << <<"class", <<"c">> >>, <<"id", <<"x">> >> >>
          /\ html_str.tree[n].attributes[1][1] = "id"
    /\ \E n \in DOMAIN document :
          /\ InDocument(document, n)
          /\ document[n].attributes = << <<"id", <<>> >> >>

\* ---------------------------------------------------------------- C19
\* C19: no mutable state is shared between invocations. A call does not
\* modify the options or the cleaning configuration it is given, and it
\* reads and writes no variable that outlives it: when a call starts, no
\* variable of the function holds a value that an earlier call wrote.
C19_NoStateOutlivesCall ==
    [][/\ opt' = opt
       /\ stage' = "minify" => formatted_html' = <<>>]_vars

\* ---------------------------------------------- command line: clean-config
\* The `--clean-config` flag after JSON.parse. A JSON value is a record with
\* its kind; an object carries its fields, an array its items.
JSONNull == [kind |-> "null"]
JSONBoolean(b) == [kind |-> "boolean", bool |-> b]
JSONNumber(n) == [kind |-> "number", number |-> n]
JSONString(s) == [kind |-> "string", text |-> s]
JSONArray(items) == [kind |-> "array", items |-> items]
JSONObject(fields) == [kind |-> "object", fields |-> fields]

\* ToBoolean
Truthy(v) ==
    CASE v.kind = "null" -> FALSE
      [] v.kind = "boolean" -> v.bool
      [] v.kind = "number" -> v.number # 0
      [] v.kind = "string" -> v.text # <<>>
      [] OTHER -> TRUE

IsArray(v) == v.kind = "array"

\* is-plain-object.js
isPlainObject(obj) == obj.kind = "object"

\* the values a root key of the flag is tried with
KeyValues ==
    {JSONNull, JSONBoolean(FALSE), JSONBoolean(TRUE), JSONNumber(0), JSONNumber(1),
     JSONString(<<>>), JSONString(<<"x">>), JSONObject(<<>>), JSONArray(<<>>)}
    \cup {JSONArray(<<r>>) : r \in ListElementRules}

CleanConfigFlags ==
    {JSONObject(e @@ a) : e \in Opt("elements", KeyValues), a \in Opt("attributes", KeyValues)}
    \cup {JSONNull, JSONArray(<<>>), JSONString(<<"x">>)}

\* the command before it looks at the parsed flag; no page is fetched and the
\* engine has no options yet
NoHtml == [wellformed |-> TRUE, tree |-> <<DocumentNode(<<>>)>>]

InitCLI ==
    /\ \E flag \in CleanConfigFlags, q \in BOOLEAN :
          caller = [call |-> 0, input |-> "none", returned |-> <<>>,
                    quiet |-> q, clean_config |-> flag, picked_clean_config |-> <<>>]
    /\ html_str = NoHtml
    /\ opt = <<>>
    /\ stage = "cli_clean_config"
    /\ document = <<DocumentNode(<<>>)>>
    /\ rule_i = 0
    /\ elements = <<>>
    /\ el_i = 0
    /\ iter = NoIteration
    /\ warnings = <<>>
    /\ error = <<>>
    /\ formatted_html = <<>>

\* this.error(message): the command ends
CliError(message) ==
    /\ stage' = "cli_error"
    /\ error' = message
    /\ UNCHANGED <<caller, html_str, opt, document, rule_i, elements, el_i, iter,
                   warnings, formatted_html>>

CliStep(next, picked) ==
    /\ stage' = next
    /\ caller' = [caller EXCEPT !.picked_clean_config = picked]
    /\ UNCHANGED <<html_str, opt, document, rule_i, elements, el_i, iter, warnings,
                   error, formatted_html>>

\* `if (clean_config.<key>)`: the key is there and its value is truthy
Supplied(key) ==
    Has(caller.clean_config.fields, key) /\ Truthy(caller.clean_config.fields[key])

CliNotPlainObject ==
    /\ stage = "cli_clean_config"
    /\ ~isPlainObject(caller.clean_config)
    /\ CliError(<<"The \"clean-config\" flag must be a plain object.">>)

CliPlainObject ==
    /\ stage = "cli_clean_config"
    /\ isPlainObject(caller.clean_config)
    /\ CliStep("cli_elements", <<>>)

CliElementsSkipped ==
    /\ stage = "cli_elements"
    /\ ~Supplied("elements")
    /\ CliStep("cli_attributes", caller.picked_clean_config)

CliElementsPicked ==
    /\ stage = "cli_elements"
    /\ Supplied("elements")
    /\ IsArray(caller.clean_config.fields.elements)
    /\ CliStep("cli_attributes",
               ("elements" :> caller.clean_config.fields.elements) @@ caller.picked_clean_config)

CliElementsRejected ==
    /\ stage = "cli_elements"
    /\ Supplied("elements")
    /\ ~IsArray(caller.clean_config.fields.elements)
    /\ CliError(<<"The clean-config \"elements\" key must be an iterable Array.">>)

CliAttributesSkipped ==
    /\ stage = "cli_attributes"
    /\ ~Supplied("attributes")
    /\ CliStep("cli_picked", caller.picked_clean_config)

CliAttributesPicked ==
    /\ stage = "cli_attributes"
    /\ Supplied("attributes")
    /\ IsArray(caller.clean_config.fields.attributes)
    /\ CliStep("cli_picked",
               ("attributes" :> caller.clean_config.fields.attributes)
                  @@ caller.picked_clean_config)

CliAttributesRejected ==
    /\ stage = "cli_attributes"
    /\ Supplied("attributes")
    /\ ~IsArray(caller.clean_config.fields.attributes)
    /\ CliError(<<"The clean-config \"attributes\" key must be an iterable Array.">>)

\* `clean_config = picked_clean_config`; these are the options every call of
\* the engine is made with (the engine reads the items of the arrays)
CliConfigured ==
    /\ stage = "cli_picked"
    /\ stage' = "cli_fetch"
    /\ opt' = [tidy_on_bad_html |-> TRUE, clean_config |-> caller.picked_clean_config,
               quiet |-> caller.quiet]
    /\ UNCHANGED <<caller, html_str, document, rule_i, elements, el_i, iter, warnings,
                   error, formatted_html>>

NextCLI ==
    \/ CliNotPlainObject
    \/ CliPlainObject
    \/ CliElementsSkipped
    \/ CliElementsPicked
    \/ CliElementsRejected
    \/ CliAttributesSkipped
    \/ CliAttributesPicked
    \/ CliAttributesRejected
    \/ CliConfigured

SpecCLI == InitCLI /\ [][NextCLI]_vars

\* ---------------------------------------------------------------- C20
\* C20: configuration shape validation. Before any document is
\* canonicalized, a configuration whose `elements` or `attributes` key is
\* present with a value that is not an array (null, false, 0, the empty
\* string, a non-empty string, an object, ...) is rejected with an error:
\* the command gets as far as fetching only with configurations in which
\* each present key holds an array, and only those reach the engine.
C20_NonArrayIsRejected ==
    stage = "cli_fetch"
        => /\ \A key \in {"elements", "attributes"} :
                 Has(caller.clean_config.fields, key)
                    => IsArray(caller.clean_config.fields[key])
           /\ \A key \in DOMAIN opt.clean_config : IsArray(opt.clean_config[key])

\* ---------------------------------------------------------------------
\* Defaults of the prune action when the other key is supplied as false
\* ---------------------------------------------------------------------

\* the pending element rule supplies `remove: false` and no `empty`
RemoveFalseAlone ==
    /\ Has(ElementRule, "remove") /\ ElementRule.remove = FALSE
    /\ ~Has(ElementRule, "empty")

\* C21 as stated: an element rule that supplies `remove: false` and no
\* `empty` neither removes nor empties a matched element; the document is
\* left unchanged by the iteration.
C21_RemoveFalseLeavesDocument_Original ==
    [][(ElementMatchPending /\ RemoveFalseAlone) => document' = document]_vars

\* C21 (amended): the default `empty = true` applies whenever the rule does
\* not supply `empty`, whatever it supplies for `remove`: a rule with
\* `remove: false` and no `empty` empties every matched element (its
\* children are detached, at most the replacement comment is left) and
\* keeps the element in its parent.
C21_RemoveFalseStillEmpties ==
    [][(ElementMatchPending /\ RemoveFalseAlone)
        => /\ \A c \in Range(document[Pending].childNodes) :
                /\ document'[c].parentNode = NULL
                /\ c \notin Range(document'[Pending].childNodes)
           /\ \A c \in Range(document'[Pending].childNodes) :
                c \notin DOMAIN document /\ document'[c].nodeType = "comment"
           /\ document'[Pending].parentNode = document[Pending].parentNode]_vars

C21_Witness ==
    /\ iter.loop = "elements" /\ iter.pruned
    /\ Has(iter.rule, "remove") /\ iter.rule.remove = FALSE
    /\ ~Has(iter.rule, "empty")
    /\ iter.candidate # <<>>
    /\ InDocument(document, iter.element)
    /\ InnerHTML(document, iter.element) = <<>>

\* the pending attribute rule supplies `empty: false` and no `remove`
EmptyFalseAlone ==
    /\ Has(AttributeRule, "empty") /\ AttributeRule.empty = FALSE
    /\ ~Has(AttributeRule, "remove")

\* C22 as stated: an attribute rule that supplies `empty: false` and no
\* `remove` neither deletes nor empties a matched attribute; the document
\* is left unchanged by the iteration.
C22_EmptyFalseLeavesDocument_Original ==
    [][(AttributeMatchPending /\ EmptyFalseAlone) => document' = document]_vars

\* C22 (amended): the default `remove = true` applies whenever the rule
\* does not supply `remove`, whatever it supplies for `empty`: a rule with
\* `empty: false` and no `remove` deletes every matched attribute and
\* leaves the element's other attributes in place.
C22_EmptyFalseStillRemoves ==
    [][(AttributeMatchPending /\ EmptyFalseAlone)
        => /\ ~HasAttribute(document', Pending, AttributeRule.attribute)
           /\ document'[Pending].attributes =
                SelectSeq(document[Pending].attributes,
                          LAMBDA a : a[1] # AttributeRule.attribute)]_vars

C22_Witness ==
    /\ iter.loop = "attributes" /\ iter.pruned
    /\ Has(iter.rule, "empty") /\ iter.rule.empty = FALSE
    /\ ~Has(iter.rule, "remove")
    /\ ~HasAttribute(document, iter.element, iter.rule.attribute)
    /\ document[iter.element].attributes # <<>>

\* ---------------------------------------------------------------------
\* Order of the rules within one call
\* ---------------------------------------------------------------------

ElementPhase == stage \in {"elements", "element_loop"}
AttributePhase == stage \in {"attributes", "attribute_loop"}

\* the element nodes of the table that are no longer part of the document
Detached == {n \in DOMAIN document : IsElement(document, n) /\ ~InDocument(document, n)}

\* C23: within one call the element rules run one at a time in list order,
\* then the attribute rules one at a time in list order; no attribute rule
\* starts before the last element rule is over and no element rule runs
\* after it; every rule selects from, and filters on, the document as the
\* earlier rules left it: an element detached earlier is never selected, and
\* no attribute value changes while element rules run.
C23_RuleOrdering ==
    [][/\ (ElementPhase /\ ElementPhase') => rule_i' \in {rule_i, rule_i + 1}
       /\ (AttributePhase /\ AttributePhase') => rule_i' \in {rule_i, rule_i + 1}
       /\ (AttributePhase' /\ ~AttributePhase)
            => /\ stage = "elements"
               /\ rule_i > Len(opt.clean_config.elements)
               /\ rule_i' = 1
       /\ AttributePhase => ~ElementPhase'
       /\ (stage' = "element_loop" /\ stage = "elements")
            => /\ rule_i' = rule_i
               /\ elements' = QuerySelectorAll(document, ElementRule.selector)
               /\ \A e \in Range(elements') : e \notin Detached
       /\ (stage' = "attribute_loop" /\ stage = "attributes")
            => /\ rule_i' = rule_i
               /\ \A e \in Range(elements') : e \notin Detached
       /\ stage = "element_loop"
            => /\ iter'.rule = ElementRule
               /\ iter'.candidate = InnerHTML(document, elements[el_i])
       /\ (stage = "attribute_loop"
             /\ HasAttribute(document, elements[el_i], AttributeRule.attribute))
            => /\ iter'.rule = AttributeRule
               /\ iter'.candidate =
                    GetAttribute(document, elements[el_i], AttributeRule.attribute)
       /\ ElementPhase
            => \A n \in DOMAIN document :
                 IsElement(document, n) => document'[n].attributes = document[n].attributes
      ]_vars

\* the second attribute rule is iterating after two element rules, the first
\* of which detached an element
C23_Witness ==
    /\ stage = "attribute_loop" /\ rule_i = 2
    /\ Len(opt.clean_config.elements) = 2
    /\ Detached # {}
    /\ iter.loop = "attributes"

\* ---------------------------------------------------------------------
\* Comments across the two minify stages
\* ---------------------------------------------------------------------

\* the comment nodes the parsed input came with
InputComments == {n \in DOMAIN html_str.tree : html_str.tree[n].nodeType = "comment"}

\* the markup of the comment an element rule injects for its replacement
ReplacementComment(rule) == <<"<!--", " ">> \o rule.replacement \o <<" ", "-->">>

\* the last iteration of the call was an element rule's, and it emptied its
\* element and appended the replacement comment to it
LastInjected ==
    /\ iter.loop = "elements" /\ iter.pruned
    /\ ~TruthyFlag(iter.rule, "remove") /\ ElementEmpty(iter.rule)
    /\ TruthyText(iter.rule, "replacement")

\* C24: while the rules run, no comment of the raw input is part of the
\* document (the first minify stripped them), and a replacement comment
\* that an element rule injected into an element which is still attached to
\* the document when the call returns appears in the returned string.
C24_InjectedCommentsSurvive ==
    /\ (ElementPhase \/ AttributePhase)
         => \A n \in InputComments : ~InDocument(document, n)
    /\ (stage = "done" /\ caller.call = 1 /\ LastInjected
          /\ InDocument(document, iter.element))
         => Includes(formatted_html, ReplacementComment(iter.rule))

\* ---------------------------------------------------------------------
\* The selection of an element rule while the rule mutates the document
\* ---------------------------------------------------------------------

\* the element the pending iteration of the element loop works on
Selected == elements[el_i]

\* C25: the list an element rule selected stays as it is while the rule
\* iterates; the iterations take its elements once each, in list order;
\* each one is filtered and, on a match, pruned (detached from its parent
\* under `remove`, left without its former children under `empty`), also
\* when an earlier iteration of the same rule removed or emptied one of its
\* ancestors; an element that fails the filter leaves the document as it
\* is; and no iteration ends the call with an error.
C25_StableSelection ==
    [][stage = "element_loop"
        => /\ elements' = elements
           /\ \A i, j \in DOMAIN elements : elements[i] = elements[j] => i = j
           /\ iter'.loop = "elements"
           /\ iter'.element = Selected
           /\ iter'.rule = ElementRule
           /\ iter'.candidate = InnerHTML(document, Selected)
           /\ stage' # "failed"
           /\ error' = error
           /\ IF el_i < Len(elements)
              THEN stage' = "element_loop" /\ el_i' = el_i + 1 /\ rule_i' = rule_i
              ELSE stage' = "elements" /\ rule_i' = rule_i + 1
           /\ IF ~iter'.pruned THEN document' = document
              ELSE IF TruthyFlag(ElementRule, "remove")
                   THEN /\ document'[Selected].parentNode = NULL
                        /\ \A n \in DOMAIN document :
                             Selected \notin Range(document'[n].childNodes)
                   ELSE ElementEmpty(ElementRule)
                        => \A c \in Range(document[Selected].childNodes) :
                             /\ document'[c].parentNode = NULL
                             /\ c \notin Range(document'[Selected].childNodes)
       ]_vars

\* a nested match: the only rule empties, the iteration just made emptied an
\* element that had children and that an earlier iteration of the same rule
\* had already cut off from the document by emptying its parent
C25_Witness ==
    /\ Len(opt.clean_config.elements) = 1
    /\ iter.loop = "elements" /\ iter.pruned
    /\ ~TruthyFlag(iter.rule, "remove")
    /\ iter.candidate # <<>>
    /\ document[iter.element].parentNode = NULL
    /\ InnerHTML(document, iter.element) = <<>>
    /\ stage = "element_loop"

\* ---------------------------------------------------------------------
\* The ways a call ends
\* ---------------------------------------------------------------------

\* the errors the function reports: the one html-minifier threw, or the
\* rule error that names the offending rule
ReportedError ==
    \/ error = MinifyError
    \/ /\ error # <<>>
       /\ Head(error) \in {"Invalid element_to_clean passed: ",
                            "Invalid attribute_to_clean passed: "}

\* every selector of the configuration parses
AllSelectorsValid ==
    /\ \A i \in DOMAIN opt.clean_config.elements :
         ~MalformedElementRule(opt.clean_config.elements[i])
    /\ \A i \in DOMAIN opt.clean_config.attributes :
         ~MalformedAttributeRule(opt.clean_config.attributes[i])

\* C27: a call that fails fails with a reported error, the minify error or
\* the error naming a rule; with a configuration whose selectors are all
\* valid, also one whose `remove` rule matches the root element or the
\* head, head reordering, attribute sorting and serialization do not fail.
C27_OnlyReportedErrors ==
    /\ stage = "failed" => ReportedError
    /\ (stage = "failed" /\ AllSelectorsValid) => error = MinifyError

\* ---------------------------------------------------------------------
\* Head reordering as a permutation
\* ---------------------------------------------------------------------

\* how many element children of the head of d serialize to the markup m
HeadCount(d, m) ==
    Cardinality({i \in DOMAIN HeadElements(d) : OuterHTML(d, HeadElements(d)[i]) = m})

\* the serialized markups of the head's element children
HeadMarkups(d) == {OuterHTML(d, HeadElements(d)[i]) : i \in DOMAIN HeadElements(d)}

\* the nodes of d outside the head: neither the head nor one of its descendants
OutsideHead(d) ==
    {n \in DOMAIN d : n # DocumentHead(d) /\ n \notin Range(PreOrder(d, DocumentHead(d)))}

MaxFiles == 2

\* the files of the build directory, relative to it, in glob order
BuildFiles == <<"index.html", "a/index.html", "b.html">>

root_domain == "https://example.com"

\* the URL a build file is requested from: the build directory and a
\* trailing index.html are cut off the file path
RelativeUrl(file) ==
    CASE file = "index.html" -> "/"
      [] file = "a/index.html" -> "/a/"
      [] OTHER -> "/b.html"

\* what is on disk and what the server holds
Disk(file) == <<"<html local ", file, ">">>
Server(url) == <<"<html remote ", url, ">">>

\* a JavaScript value that is null or a string
Null == [isNull |-> TRUE, text |-> <<>>]
Str(t) == [isNull |-> FALSE, text |-> t]

\* promises: pending, fulfilled with a value, or rejected
PendingPromise == [state |-> "pending", value |-> Null]
FulfilledPromise(v) == [state |-> "fulfilled", value |-> v]
RejectedPromise == [state |-> "rejected", value |-> Null]

\* Promise.all of promises that are all fulfilled: the values, by index
PromiseAll(promises) == [i \in DOMAIN promises |-> promises[i].value]

\* the string prepareHtmlForUsefulComparisons returns for a page
Canonical(html) == <<"canonical">> \o html

\* the cache directory: whether it exists, and the files of its two trees
\* by relative path
NoCache == [exists |-> FALSE, local |-> <<>>, remote |-> <<>>]
EmptyCache == [exists |-> TRUE, local |-> <<>>, remote |-> <<>>]

InitRun ==
    /\ \E n \in 1..MaxFiles, q \in BOOLEAN :
          caller = [call |-> 0, input |-> "none", returned |-> <<>>, quiet |-> q,
                    file_paths |-> SubSeq(BuildFiles, 1, n),
                    urls |-> [i \in 1..n |-> <<root_domain, RelativeUrl(BuildFiles[i])>>],
                    reads |-> [i \in 1..n |-> PendingPromise],
                    fetches |-> [i \in 1..n |-> PendingPromise],
                    urls_fetched_count |-> 0, settle_order |-> <<>>,
                    local_html |-> <<>>, remote_html |-> <<>>,
                    local_prepared_html |-> <<>>, remote_prepared_html |-> <<>>,
                    cache |-> NoCache, i |-> 0, diff_output |-> <<>>]
    /\ html_str = NoHtml
    /\ opt = [tidy_on_bad_html |-> TRUE, clean_config |-> <<>>, quiet |-> caller.quiet]
    /\ stage = "cli_fetch"
    /\ document = <<DocumentNode(<<>>)>>
    /\ rule_i = 0
    /\ elements = <<>>
    /\ el_i = 0
    /\ iter = NoIteration
    /\ warnings = <<>>
    /\ error = <<>>
    /\ formatted_html = <<>>

\* a step of the command that changes its locals and moves to a stage
RunStep(next, locals) ==
    /\ stage' = next
    /\ caller' = locals
    /\ UNCHANGED <<html_str, opt, document, rule_i, elements, el_i, iter, warnings,
                   error, formatted_html>>

\* an exception leaves run(): the command ends with the locals as given
RunFails(message, locals) ==
    /\ stage' = "cli_error"
    /\ error' = message
    /\ caller' = locals
    /\ UNCHANGED <<html_str, opt, document, rule_i, elements, el_i, iter, warnings,
                   formatted_html>>

\* fs.readFile of a build file settles
ReadSettles ==
    /\ stage = "cli_fetch"
    /\ \E i \in DOMAIN caller.reads :
         /\ caller.reads[i].state = "pending"
         /\ \E p \in {FulfilledPromise(Str(Disk(caller.file_paths[i]))), RejectedPromise} :
              RunStep("cli_fetch", [caller EXCEPT !.reads[i] = p])

\* a fetch settles: an OK response gives its text, another response null,
\* and a failed request null through the catch; the counter goes up with the
\* progress line, which a failed request and a quiet run do not print;
\* settle_order records the order in which the fetches completed
FetchSettles ==
    /\ stage = "cli_fetch"
    /\ \E i \in DOMAIN caller.fetches :
         /\ caller.fetches[i].state = "pending"
         /\ \E response \in {"ok", "not_ok", "failed"} :
              RunStep("cli_fetch",
                      [caller EXCEPT
                         !.fetches[i] =
                            IF response = "ok"
                            THEN FulfilledPromise(Str(Server(caller.urls[i][2])))
                            ELSE FulfilledPromise(Null),
                         !.urls_fetched_count =
                            IF response = "failed" \/ caller.quiet THEN @ ELSE @ + 1,
                         !.settle_order = Append(@, i)])

\* await Promise.all(local_html) rejects with the first read that failed
ReadRejected ==
    /\ stage = "cli_fetch"
    /\ \E i \in DOMAIN caller.reads : caller.reads[i].state = "rejected"
    /\ RunFails(<<"ENOENT">>, caller)

\* both awaits are over: the arrays hold the values by index
FetchesAwaited ==
    /\ stage = "cli_fetch"
    /\ \A i \in DOMAIN caller.reads : caller.reads[i].state = "fulfilled"
    /\ \A i \in DOMAIN caller.fetches : caller.fetches[i].state = "fulfilled"
    /\ RunStep("cli_prepare_local",
               [caller EXCEPT !.local_html = PromiseAll(caller.reads),
                              !.remote_html = PromiseAll(caller.fetches)])

\* html.map(...): null stays null, a string is canonicalized
PrepareAll(html) ==
    [i \in DOMAIN html |-> IF html[i].isNull THEN Null ELSE Str(Canonical(html[i].text))]

\* the warnings of a map: one for each null entry, unless quiet
SkipWarnings(html) ==
    LET skipped == SelectSeq([i \in DOMAIN html |-> i], LAMBDA i : html[i].isNull)
    IN  IF caller.quiet THEN <<>>
        ELSE [k \in DOMAIN skipped |-> <<"Skipping ", caller.urls[skipped[k]][2]>>]

PrepareLocal ==
    /\ stage = "cli_prepare_local"
    /\ stage' = "cli_prepare_remote"
    /\ caller' = [caller EXCEPT !.local_prepared_html = PrepareAll(caller.local_html)]
    /\ warnings' = warnings \o SkipWarnings(caller.local_html)
    /\ UNCHANGED <<html_str, opt, document, rule_i, elements, el_i, iter, error,
                   formatted_html>>

\* the engine throws on a page and this.error(e) ends the command
PrepareLocalThrows ==
    /\ stage = "cli_prepare_local"
    /\ \E i \in DOMAIN caller.local_html : ~caller.local_html[i].isNull
    /\ RunFails(<<"TypeError">>, caller)

PrepareRemote ==
    /\ stage = "cli_prepare_remote"
    /\ stage' = "cli_cache"
    /\ caller' = [caller EXCEPT !.remote_prepared_html = PrepareAll(caller.remote_html)]
    /\ warnings' = warnings \o SkipWarnings(caller.remote_html)
    /\ UNCHANGED <<html_str, opt, document, rule_i, elements, el_i, iter, error,
                   formatted_html>>

PrepareRemoteThrows ==
    /\ stage = "cli_prepare_remote"
    /\ \E i \in DOMAIN caller.remote_html : ~caller.remote_html[i].isNull
    /\ RunFails(<<"TypeError">>, caller)

\* fs.ensureDir and fs.emptyDir of the cache directory
CreateCache ==
    /\ stage = "cli_cache"
    /\ RunStep("cli_write", [caller EXCEPT !.cache = EmptyCache, !.i = 1])

\* ensureDir fails before the directory exists, or emptyDir after
CreateCacheFails ==
    /\ stage = "cli_cache"
    /\ \E made \in {NoCache, EmptyCache} :
         RunFails(<<"EACCES">>, [caller EXCEPT !.cache = made])

\* variant: a page is skipped only when both sides are absent
SkipPage_BothAbsent(local_file_html, remote_file_html) ==
    local_file_html.isNull /\ remote_file_html.isNull

\* local_file_html == null || remote_file_html == null
SkipPage(local_file_html, remote_file_html) ==
    local_file_html.isNull \/ remote_file_html.isNull

\* the loop over files_paths_no_build_dir is over
WritesDone ==
    /\ stage = "cli_write"
    /\ caller.i > Len(caller.file_paths)
    /\ RunStep("cli_diff", caller)

\* `continue`: one side of the page is absent
WriteSkipped ==
    /\ stage = "cli_write"
    /\ caller.i <= Len(caller.file_paths)
    /\ SkipPage(caller.local_prepared_html[caller.i], caller.remote_prepared_html[caller.i])
    /\ RunStep("cli_write", [caller EXCEPT !.i = @ + 1])

\* both files of the page are written under its relative path
WritePage ==
    /\ stage = "cli_write"
    /\ caller.i <= Len(caller.file_paths)
    /\ ~SkipPage(caller.local_prepared_html[caller.i], caller.remote_prepared_html[caller.i])
    /\ LET file_path == caller.file_paths[caller.i]
           local_file_html == caller.local_prepared_html[caller.i]
           remote_file_html == caller.remote_prepared_html[caller.i]
       IN  RunStep("cli_write",
                   [caller EXCEPT
                      !.cache.local = (file_path :> local_file_html.text) @@ @,
                      !.cache.remote = (file_path :> remote_file_html.text) @@ @,
                      !.i = @ + 1])

\* an ensureDir or a writeFile of the iteration rejects: before anything of
\* the page is written, or after its local file is
WriteFails ==
    /\ stage = "cli_write"
    /\ caller.i <= Len(caller.file_paths)
    /\ ~SkipPage(caller.local_prepared_html[caller.i], caller.remote_prepared_html[caller.i])
    /\ LET file_path == caller.file_paths[caller.i]
           local_file_html == caller.local_prepared_html[caller.i]
       IN  \E local_written \in BOOLEAN :
             RunFails(<<"ENOSPC">>,
                      IF local_written
                      THEN [caller EXCEPT
                              !.cache.local = (file_path :> local_file_html.text) @@ @]
                      ELSE caller)

\* what `diff -Nurw local remote` prints for the two trees: the paths whose
\* files differ
DiffOutput(cache) ==
    SelectSeq(BuildFiles,
              LAMBDA p : /\ p \in DOMAIN cache.local \cup DOMAIN cache.remote
                         /\ \/ p \notin DOMAIN cache.local
                            \/ p \notin DOMAIN cache.remote
                            \/ cache.local[p] # cache.remote[p])

\* diff exits with 0: its stdout is kept and the finally block removes the
\* cache
DiffSame ==
    /\ stage = "cli_diff"
    /\ DiffOutput(caller.cache) = <<>>
    /\ RunStep("cli_output", [caller EXCEPT !.diff_output = <<>>, !.cache = NoCache])

\* diff exits with 1, differences found: the stdout of the error is kept
\* and the finally block removes the cache
DiffDiffers ==
    /\ stage = "cli_diff"
    /\ DiffOutput(caller.cache) # <<>>
    /\ RunStep("cli_output",
               [caller EXCEPT !.diff_output = DiffOutput(caller.cache),
                              !.cache = NoCache])

\* diff fails with another code: the cache is removed and this.error ends
\* the command
DiffFails ==
    /\ stage = "cli_diff"
    /\ RunFails(<<"Error in running diff against our two directories">>,
                [caller EXCEPT !.cache = NoCache])

\* the diff is logged or written to the output file, then this.exit(0)
Output ==
    /\ stage = "cli_output"
    /\ RunStep("cli_exit", caller)

NextRun ==
    \/ ReadSettles
    \/ FetchSettles
    \/ ReadRejected
    \/ FetchesAwaited
    \/ PrepareLocal
    \/ PrepareLocalThrows
    \/ PrepareRemote
    \/ PrepareRemoteThrows
    \/ CreateCache
    \/ CreateCacheFails
    \/ WritesDone
    \/ WriteSkipped
    \/ WritePage
    \/ WriteFails
    \/ DiffSame
    \/ DiffDiffers
    \/ DiffFails
    \/ Output

SpecRun == InitRun /\ [][NextRun]_vars

\* ---------------------------------------------------------------------
\* Recombination of the results by index
\* ---------------------------------------------------------------------

\* the page of a build file has no local or no remote HTML
PageAbsent(i) ==
    \/ caller.reads[i].state # "fulfilled" \/ caller.reads[i].value.isNull
    \/ caller.fetches[i].state # "fulfilled" \/ caller.fetches[i].value.isNull

\* C26: whatever order the fetches complete in and whichever fail, the
\* i-th entries of the local and of the remote arrays are those of the
\* i-th build file; every file of the cache sits under the relative path of
\* a build file and holds the canonical text of that file's local page (in
\* the local tree) or of the page fetched from that file's URL (in the
\* remote tree); and a page whose local or remote HTML is absent has a file
\* in neither tree.
C26_ResultsPairedByIndex ==
    /\ \A i \in DOMAIN caller.local_html :
         caller.local_html[i] = Str(Disk(caller.file_paths[i]))
    /\ \A i \in DOMAIN caller.remote_html :
         caller.remote_html[i] \in {Null, Str(Server(RelativeUrl(caller.file_paths[i])))}
    /\ \A i \in DOMAIN caller.local_prepared_html :
         caller.local_prepared_html[i] = Str(Canonical(Disk(caller.file_paths[i])))
    /\ \A i \in DOMAIN caller.remote_prepared_html :
         caller.remote_prepared_html[i]
           \in {Null, Str(Canonical(Server(RelativeUrl(caller.file_paths[i]))))}
    /\ DOMAIN caller.cache.remote \subseteq DOMAIN caller.cache.local
    /\ DOMAIN caller.cache.local \subseteq Range(caller.file_paths)
    /\ \A p \in DOMAIN caller.cache.local :
         caller.cache.local[p] = Canonical(Disk(p))
    /\ \A p \in DOMAIN caller.cache.remote :
         caller.cache.remote[p] = Canonical(Server(RelativeUrl(p)))
    /\ \A i \in DOMAIN caller.file_paths :
         PageAbsent(i) => caller.file_paths[i] \notin DOMAIN caller.cache.local
                                                      \cup DOMAIN caller.cache.remote

\* the second fetch completed before the first, the first page came back,
\* the second did not, and the cache holds the pair of the first page only
C26_Witness ==
    /\ stage = "cli_diff"
    /\ Len(caller.file_paths) = 2
    /\ caller.settle_order = <<2, 1>>
    /\ caller.remote_html[2].isNull
    /\ DOMAIN caller.cache.local = {caller.file_paths[1]}
    /\ DOMAIN caller.cache.remote = {caller.file_paths[1]}

\* ---------------------------------------------------------------------
\* Cleanup of the cache
\* ---------------------------------------------------------------------

\* the command is over: this.exit(0) ran or an error left run()
Terminated == stage \in {"cli_exit", "cli_error"}

\* C28: when the command is over, on whichever path (diff without or with
\* differences, diff failing with another code, a write into the cache
\* failing), the cache directory created by the command has been removed.
C28_CacheRemovedOnEveryPath ==
    Terminated => ~caller.cache.exists

====
